---- MODULE Spec2Model ----
(***************************************************************************)
(* NGMotherLine: speech-span segmentation (src/audio/vad.py), span-wise    *)
(* transcription (src/asr/whisper_engine.py), segment reconciliation and   *)
(* the run of the pipeline (src/core/pipeline.py), the command line        *)
(* (src/cli/main.py) and subtitle serialization                            *)
(* (src/subtitle/generator.py) as state machines.                          *)
(*                                                                         *)
(* Time is counted in integer ticks.  In the segmenter one tick is one     *)
(* second; an audio buffer is its length in ticks plus the classification  *)
(* (speech / non-speech) the external detector gives each of its frames.   *)
(***************************************************************************)
EXTENDS Integers, Sequences, FiniteSets, TLC

VARIABLES
    WEBRTCVAD_AVAILABLE,   \* vad.py module flag: import webrtcvad succeeded
    segmenter,             \* the VADSegmenter object (its fields)
    audio_data,            \* the audio sample handed to segment_audio
    vad_out,               \* outcome of the last segment_audio call
    construction,          \* one VADSegmenter(...) call: its arguments and outcome
    vad_loop,              \* one run of a window loop of the segmenter, step by step
    whisper,               \* one WhisperEngine.transcribe_segments call
    config,                \* the PipelineConfig the pipeline holds
    asr_segments,          \* the transcript as the ASR delivered it (never changed)
    transcription_result,  \* the TranscriptionResult object, mutated in place
    recon,                 \* progress and outcome of translate + reconcile
    given_segments,        \* the SubtitleSegment list as handed to the generator
    subtitle_objects,      \* the same SubtitleSegment objects, mutated in place
    validation,            \* validate_segments passes made so far, and their results
    rendered,              \* what the last generate_* call wrote
    seconds,               \* a time handed to a time-code formatter (milliseconds)
    formatted,             \* the time code the formatter returned
    cli,                   \* one run of the command line: arguments, progress, exit
    pipeline               \* a MotherLinePipeline object and its process_file call

vadVars == <<WEBRTCVAD_AVAILABLE, segmenter, audio_data, vad_out, construction, vad_loop>>
asrVars == <<whisper>>
reconVars == <<config, asr_segments, transcription_result, recon>>
subVars == <<given_segments, subtitle_objects, validation, rendered>>
fmtVars == <<seconds, formatted>>
runVars == <<cli, pipeline>>
vars == <<vadVars, asrVars, reconVars, subVars, fmtVars, runVars>>

Min(a, b) == IF a < b THEN a ELSE b

None == "None"

\* current_start = None in the frame loops; a started span is <<start>>
NoStart == <<>>

(***************************************************************************)
(* Bounds of the segmenter model.                                          *)
(***************************************************************************)
MaxAudio == 12         \* longest audio, in ticks
FrameTicks == 2        \* ticks per classifier frame (frame_size samples)
FixedCap == 10         \* the 10.0 of min(max_speech_duration, 10.0)

MinDurations == {1, 3}         \* values of min_speech_duration tried
MaxDurations == {4, 10, 11}    \* values of max_speech_duration tried
Methods == {"silero", "webrtc", "fixed"}

(***************************************************************************)
(* Audio samples: a length and one speech flag per frame; the last frame   *)
(* may be partial (the code pads it).                                      *)
(***************************************************************************)
NumFrames(len) == (len + FrameTicks - 1) \div FrameTicks

AudioSamples ==
    UNION { { [len |-> n, speech |-> m] : m \in [1..NumFrames(n) -> BOOLEAN] }
            : n \in 0..MaxAudio }

(***************************************************************************)
(* VADSegmenter.__init__ / _init_vad / _init_webrtc_vad                    *)
(***************************************************************************)
\* a plausible slip: a failing Vad() leaves the method at 'webrtc' with no handle
init_webrtc_vad_keeps_method(self, available, vad_ctor_ok) ==
    IF ~available
      THEN [self EXCEPT !.method = "fixed"]
      ELSE IF vad_ctor_ok
             THEN [self EXCEPT !.webrtc_vad = "Vad"]
             ELSE self

\* _init_webrtc_vad: falls to 'fixed' when the module is missing or Vad() raises
init_webrtc_vad(self, available, vad_ctor_ok) ==
    IF ~available
      THEN [self EXCEPT !.method = "fixed"]
      ELSE IF vad_ctor_ok
             THEN [self EXCEPT !.webrtc_vad = "Vad"]
             ELSE [self EXCEPT !.method = "fixed"]

\* _init_vad: silero load failure degrades to webrtc, then possibly to fixed
init_vad(self, available, hub_load_ok, vad_ctor_ok) ==
    IF self.method = "silero"
      THEN IF hub_load_ok
             THEN [self EXCEPT !.vad_model = "silero_vad"]
             ELSE init_webrtc_vad([self EXCEPT !.method = "webrtc"],
                                  available, vad_ctor_ok)
      ELSE IF self.method = "webrtc"
             THEN init_webrtc_vad(self, available, vad_ctor_ok)
             ELSE self

\* _init_vad, last branch: a method name outside the three raises ValueError
init_vad_raises(method) == IF method \in Methods THEN None ELSE "ValueError"

\* __init__: stores the arguments, clears the handles, runs _init_vad
VADSegmenter(method, min_speech, max_speech, available, hub_load_ok, vad_ctor_ok) ==
    init_vad([method |-> method,
              min_speech_duration |-> min_speech,
              max_speech_duration |-> max_speech,
              vad_model |-> None,
              webrtc_vad |-> None],
             available, hub_load_ok, vad_ctor_ok)

(***************************************************************************)
(* _segment_fixed: consecutive windows of min(max_speech_duration, 10.0)   *)
(***************************************************************************)
RECURSIVE fixed_loop(_, _, _, _)
fixed_loop(current_time, duration, segment_length, segments) ==
    IF current_time < duration
      THEN LET end_time == Min(current_time + segment_length, duration)
           IN  fixed_loop(end_time, duration, segment_length,
                          Append(segments, <<current_time, end_time>>))
      ELSE segments

\* a plausible slip: the loop stops before the final, shorter window
RECURSIVE fixed_loop_whole_windows(_, _, _, _)
fixed_loop_whole_windows(current_time, duration, segment_length, segments) ==
    IF current_time + segment_length <= duration
      THEN fixed_loop_whole_windows(current_time + segment_length, duration,
               segment_length,
               Append(segments, <<current_time, current_time + segment_length>>))
      ELSE segments

segment_fixed_whole_windows(self, audio) ==
    fixed_loop_whole_windows(0, audio.len,
                             Min(self.max_speech_duration, FixedCap), <<>>)

segment_fixed(self, audio) ==
    fixed_loop(0, audio.len, Min(self.max_speech_duration, FixedCap), <<>>)

(***************************************************************************)
(* _split_long_segment                                                     *)
(***************************************************************************)
RECURSIVE split_loop(_, _, _, _)
split_loop(current_start, end_time, max_speech_duration, segments) ==
    IF current_start < end_time
      THEN LET current_end == Min(current_start + max_speech_duration, end_time)
           IN  split_loop(current_end, end_time, max_speech_duration,
                          Append(segments, <<current_start, current_end>>))
      ELSE segments

\* a plausible slip: the last piece is not clamped to end_time
RECURSIVE split_loop_unclamped(_, _, _, _)
split_loop_unclamped(current_start, end_time, max_speech_duration, segments) ==
    IF current_start < end_time
      THEN split_loop_unclamped(current_start + max_speech_duration, end_time,
               max_speech_duration,
               Append(segments,
                      <<current_start, current_start + max_speech_duration>>))
      ELSE segments

split_long_segment_unclamped(self, start_time, end_time) ==
    split_loop_unclamped(start_time, end_time, self.max_speech_duration, <<>>)

split_long_segment(self, start_time, end_time) ==
    split_loop(start_time, end_time, self.max_speech_duration, <<>>)

(***************************************************************************)
(* The external Silero model called with return_seconds=True: the runs of  *)
(* frames it scores as speech, as {start, end} in ticks, in time order.    *)
(***************************************************************************)
RECURSIVE speech_runs(_, _, _, _)
speech_runs(audio, k, run_start, acc) ==
    IF k > NumFrames(audio.len)
      THEN IF run_start = NoStart
             THEN acc
             ELSE Append(acc, [start |-> run_start[1], end |-> audio.len])
      ELSE LET t == (k - 1) * FrameTicks
           IN  IF audio.speech[k] /\ run_start = NoStart
                 THEN speech_runs(audio, k + 1, <<t>>, acc)
                 ELSE IF ~audio.speech[k] /\ run_start # NoStart
                        THEN speech_runs(audio, k + 1, NoStart,
                                 Append(acc, [start |-> run_start[1], end |-> t]))
                        ELSE speech_runs(audio, k + 1, run_start, acc)

vad_model(audio) == speech_runs(audio, 1, NoStart, <<>>)

(***************************************************************************)
(* _segment_silero: duration filter and split of the model's timestamps;   *)
(* any exception falls back to _segment_fixed for this call.               *)
(***************************************************************************)
RECURSIVE silero_loop(_, _, _, _)
silero_loop(self, speech_timestamps, n, segments) ==
    IF n > Len(speech_timestamps)
      THEN segments
      ELSE LET start_time == speech_timestamps[n].start
               end_time == speech_timestamps[n].end
               duration == end_time - start_time
           IN  IF duration >= self.min_speech_duration
                 THEN IF duration > self.max_speech_duration
                        THEN silero_loop(self, speech_timestamps, n + 1,
                                 segments \o split_long_segment(self, start_time, end_time))
                        ELSE silero_loop(self, speech_timestamps, n + 1,
                                 Append(segments, <<start_time, end_time>>))
                 ELSE silero_loop(self, speech_timestamps, n + 1, segments)

\* a plausible slip: the except branch gives up instead of falling back
segment_silero_gives_up(self, audio, raises) ==
    IF raises
      THEN [via |-> "fixed", segments |-> <<>>]
      ELSE [via |-> "silero",
            segments |-> silero_loop(self, vad_model(audio), 1, <<>>)]

segment_silero(self, audio, raises) ==
    IF raises
      THEN [via |-> "fixed", segments |-> segment_fixed(self, audio)]
      ELSE [via |-> "silero",
            segments |-> silero_loop(self, vad_model(audio), 1, <<>>)]

(***************************************************************************)
(* _segment_webrtc: one classification per frame; a span is closed when a  *)
(* non-speech frame is seen, the trailing span at the end of the audio.    *)
(***************************************************************************)
RECURSIVE webrtc_loop(_, _, _, _, _)
webrtc_loop(self, audio, k, current_start, segments) ==
    IF k > NumFrames(audio.len)
      THEN IF current_start # NoStart
             THEN LET end_time == audio.len
                      duration == end_time - current_start[1]
                  IN  IF duration >= self.min_speech_duration
                        THEN Append(segments, <<current_start[1], end_time>>)
                        ELSE segments
             ELSE segments
      ELSE LET is_speech == audio.speech[k]
               current_time == (k - 1) * FrameTicks
           IN  IF is_speech /\ current_start = NoStart
                 THEN webrtc_loop(self, audio, k + 1, <<current_time>>, segments)
                 ELSE IF ~is_speech /\ current_start # NoStart
                        THEN LET duration == current_time - current_start[1]
                             IN  webrtc_loop(self, audio, k + 1, NoStart,
                                     IF duration >= self.min_speech_duration
                                       THEN Append(segments, <<current_start[1], current_time>>)
                                       ELSE segments)
                        ELSE webrtc_loop(self, audio, k + 1, current_start, segments)

segment_webrtc(self, audio, available, raises) ==
    IF ~available \/ self.webrtc_vad = None
      THEN [via |-> "fixed", segments |-> segment_fixed(self, audio)]
      ELSE IF raises
             THEN [via |-> "fixed", segments |-> segment_fixed(self, audio)]
             ELSE [via |-> "webrtc",
                   segments |-> webrtc_loop(self, audio, 1, NoStart, <<>>)]

(***************************************************************************)
(* segment_audio: dispatch on the method resolved at construction          *)
(***************************************************************************)
segment_audio(self, audio, available, raises) ==
    IF self.method = "silero"
      THEN segment_silero(self, audio, raises)
      ELSE IF self.method = "webrtc"
             THEN segment_webrtc(self, audio, available, raises)
             ELSE [via |-> "fixed", segments |-> segment_fixed(self, audio)]

\* one segment_audio call as the caller sees it: the spans, the strategy that
\* produced them, whether the detector raised, and whether it had on the
\* call before
segment_audio_call(self, audio, available, raises, before) ==
    LET returned == segment_audio(self, audio, available, raises)
    IN  [via |-> returned.via,
         segments |-> returned.segments,
         raised |-> raises,
         after_raise |-> before.raised]

(***************************************************************************)
(* The components a specification does not exercise stay as constructed.   *)
(***************************************************************************)
VadIdle ==
    /\ WEBRTCVAD_AVAILABLE = TRUE
    /\ segmenter = None
    /\ audio_data = None
    /\ vad_out = None
    /\ construction = None
    /\ vad_loop = None

AsrIdle ==
    /\ whisper = None

ReconIdle ==
    /\ config = None
    /\ asr_segments = <<>>
    /\ transcription_result = None
    /\ recon = None

SubIdle ==
    /\ given_segments = <<>>
    /\ subtitle_objects = <<>>
    /\ validation = None
    /\ rendered = None

FmtIdle ==
    /\ seconds = 0
    /\ formatted = [format |-> None, text |-> ""]

RunIdle ==
    /\ cli = None
    /\ pipeline = None

(***************************************************************************)
(* Specification of the segmenter: a constructed VADSegmenter and one      *)
(* extracted audio sample; segment_audio may be called any number of       *)
(* times, the external detector raising or not on each call.               *)
(***************************************************************************)
VadInit ==
    /\ WEBRTCVAD_AVAILABLE \in BOOLEAN
    /\ \E method \in Methods, mn \in MinDurations, mx \in MaxDurations,
          hub_load_ok \in BOOLEAN, vad_ctor_ok \in BOOLEAN :
          segmenter = VADSegmenter(method, mn, mx, WEBRTCVAD_AVAILABLE,
                                   hub_load_ok, vad_ctor_ok)
    /\ audio_data \in AudioSamples
    /\ vad_out = [via |-> None, segments |-> <<>>,
                  raised |-> FALSE, after_raise |-> FALSE]
    /\ construction = None
    /\ vad_loop = None
    /\ AsrIdle
    /\ ReconIdle
    /\ SubIdle
    /\ FmtIdle
    /\ RunIdle

SegmentSilero ==
    /\ segmenter.method = "silero"
    /\ \E raises \in BOOLEAN :
          vad_out' = segment_audio_call(segmenter, audio_data, WEBRTCVAD_AVAILABLE,
                                       raises, vad_out)
    /\ UNCHANGED <<WEBRTCVAD_AVAILABLE, segmenter, audio_data, construction, vad_loop,
                   asrVars, reconVars, subVars, fmtVars, runVars>>

SegmentWebrtc ==
    /\ segmenter.method = "webrtc"
    /\ \E raises \in BOOLEAN :
          vad_out' = segment_audio_call(segmenter, audio_data, WEBRTCVAD_AVAILABLE,
                                       raises, vad_out)
    /\ UNCHANGED <<WEBRTCVAD_AVAILABLE, segmenter, audio_data, construction, vad_loop,
                   asrVars, reconVars, subVars, fmtVars, runVars>>

SegmentFixed ==
    /\ segmenter.method = "fixed"
    /\ vad_out' = segment_audio_call(segmenter, audio_data, WEBRTCVAD_AVAILABLE,
                                   FALSE, vad_out)
    /\ UNCHANGED <<WEBRTCVAD_AVAILABLE, segmenter, audio_data, construction, vad_loop,
                   asrVars, reconVars, subVars, fmtVars, runVars>>

VadNext == SegmentSilero \/ SegmentWebrtc \/ SegmentFixed

SpecVad == VadInit /\ [][VadNext]_vars

(***************************************************************************)
(* C1: every span returned by segment_audio lies in the audio              *)
(* (0 <= start < end <= D), and the spans are sorted by start and do not   *)
(* overlap (each starts at or after the end of the one before).            *)
(***************************************************************************)
SpansWellFormed(segments, D) ==
    /\ \A i \in 1..Len(segments) :
          /\ 0 <= segments[i][1]
          /\ segments[i][1] < segments[i][2]
          /\ segments[i][2] <= D
    /\ \A i \in 1..(Len(segments) - 1) : segments[i + 1][1] >= segments[i][2]

C1_SpansInAudioSortedDisjoint ==
    vad_out.via # None => SpansWellFormed(vad_out.segments, audio_data.len)

\* the neural strategy returned a split long span followed by another span
C1_Witness ==
    /\ vad_out.via = "silero"
    /\ Len(vad_out.segments) >= 3
    /\ \E i \in 1..(Len(vad_out.segments) - 1) :
          vad_out.segments[i + 1][1] > vad_out.segments[i][2]
    /\ \E i \in 1..(Len(vad_out.segments) - 1) :
          vad_out.segments[i + 1][1] = vad_out.segments[i][2]

(***************************************************************************)
(* C2: for D > 0 the fixed-window result is non-empty and tiles [0, D]:    *)
(* it starts at 0, each window starts where the previous one ends, every   *)
(* window but the last has length L = min(max_speech_duration, 10), the    *)
(* last is no longer than L and ends at D.  It holds for the direct        *)
(* strategy and for every fallback to it.                                  *)
(***************************************************************************)
TilesAudio(segments, D, L) ==
    /\ Len(segments) >= 1
    /\ segments[1][1] = 0
    /\ \A i \in 1..(Len(segments) - 1) :
          /\ segments[i + 1][1] = segments[i][2]
          /\ segments[i][2] - segments[i][1] = L
    /\ segments[Len(segments)][2] = D
    /\ segments[Len(segments)][2] - segments[Len(segments)][1] <= L
    /\ segments[Len(segments)][2] > segments[Len(segments)][1]

C2_FixedWindowsTileAudio ==
    (vad_out.via = "fixed" /\ audio_data.len > 0)
        => TilesAudio(vad_out.segments, audio_data.len,
                      Min(segmenter.max_speech_duration, FixedCap))

\* the 12-second scenario: max_speech_duration = 10 gives [(0,10),(10,12)]
C2_Witness ==
    /\ vad_out.via = "fixed"
    /\ audio_data.len = 12
    /\ segmenter.max_speech_duration = 10
    /\ vad_out.segments = << <<0, 10>>, <<10, 12>> >>

(***************************************************************************)
(* C22: when the neural or the frame-classifier strategy raises during a   *)
(* call, the call does not raise and returns exactly the fixed-window      *)
(* result for that audio; the method of the segmenter is not changed, so   *)
(* the next call tries the configured strategy again.                      *)
(***************************************************************************)
FixedWindowResult(segments, D, L) ==
    IF D > 0 THEN TilesAudio(segments, D, L) ELSE segments = <<>>

C22_State ==
    /\ vad_out.raised =>
          /\ segmenter.method \in {"silero", "webrtc"}
          /\ vad_out.via = "fixed"
          /\ FixedWindowResult(vad_out.segments, audio_data.len,
                               Min(segmenter.max_speech_duration, FixedCap))
    /\ (vad_out.after_raise /\ ~vad_out.raised) =>
          vad_out.via = segmenter.method

\* C22: a raising strategy gives the fixed-window result for that call, the
\* call after it uses the configured strategy, and no call changes the method
C22_RuntimeFallbackForOneCall ==
    /\ []C22_State
    /\ [][segmenter'.method = segmenter.method]_vars

\* the neural strategy raised on a 12-tick audio: two or more fixed windows
C22_Witness ==
    /\ vad_out.raised
    /\ segmenter.method = "silero"
    /\ audio_data.len = 12
    /\ vad_out.via = "fixed"
    /\ Len(vad_out.segments) >= 2

(***************************************************************************)
(* C23: every span returned by segment_audio lasts at most                 *)
(* max_speech_duration and at least min_speech_duration, for every         *)
(* strategy and every audio.                                               *)
(***************************************************************************)
C23_SpansWithinDurationLimits ==
    vad_out.via # None =>
        \A i \in 1..Len(vad_out.segments) :
            LET duration == vad_out.segments[i][2] - vad_out.segments[i][1]
            IN  /\ duration <= segmenter.max_speech_duration
                /\ duration >= segmenter.min_speech_duration

(***************************************************************************)
(* Specification of the construction: one VADSegmenter(...) call with any  *)
(* method name, the neural model loading or not and the frame classifier   *)
(* being importable and constructible or not.                              *)
(***************************************************************************)
ConstructInit ==
    /\ WEBRTCVAD_AVAILABLE \in BOOLEAN
    /\ segmenter = None
    /\ audio_data = None
    /\ vad_out = None
    /\ construction \in [pc : {"called"},
                         method : Methods \cup {"energy"},
                         min_speech_duration : MinDurations,
                         max_speech_duration : MaxDurations,
                         hub_load_ok : BOOLEAN,
                         vad_ctor_ok : BOOLEAN,
                         raised : {None}]
    /\ vad_loop = None
    /\ AsrIdle
    /\ ReconIdle
    /\ SubIdle
    /\ FmtIdle
    /\ RunIdle

\* VADSegmenter(method, ...) with one of the three methods: the object exists
Construct ==
    /\ construction.pc = "called"
    /\ init_vad_raises(construction.method) = None
    /\ segmenter' = VADSegmenter(construction.method,
                                 construction.min_speech_duration,
                                 construction.max_speech_duration,
                                 WEBRTCVAD_AVAILABLE,
                                 construction.hub_load_ok,
                                 construction.vad_ctor_ok)
    /\ construction' = [construction EXCEPT !.pc = "returned"]
    /\ UNCHANGED <<WEBRTCVAD_AVAILABLE, audio_data, vad_out, vad_loop,
                   asrVars, reconVars, subVars, fmtVars, runVars>>

\* VADSegmenter(method, ...) with another name: ValueError, no object
ConstructUnknown ==
    /\ construction.pc = "called"
    /\ init_vad_raises(construction.method) # None
    /\ construction' = [construction EXCEPT
                            !.pc = "raised",
                            !.raised = init_vad_raises(construction.method)]
    /\ UNCHANGED <<WEBRTCVAD_AVAILABLE, segmenter, audio_data, vad_out, vad_loop,
                   asrVars, reconVars, subVars, fmtVars, runVars>>

ConstructNext == Construct \/ ConstructUnknown

SpecConstruct == ConstructInit /\ [][ConstructNext]_vars

\* the method the fallback chain of the construction ends at
ResolvedMethod(c, available) ==
    IF c.method = "silero" /\ c.hub_load_ok
      THEN "silero"
      ELSE IF c.method \in {"silero", "webrtc"} /\ available /\ c.vad_ctor_ok
             THEN "webrtc"
             ELSE "fixed"

(***************************************************************************)
(* C21: the fallback is resolved at construction: a failed neural load     *)
(* gives 'webrtc' when the frame classifier is available and initialises   *)
(* and 'fixed' otherwise, an unavailable or failing frame classifier gives *)
(* 'fixed'; a construction with one of the three methods never raises and  *)
(* leaves a method among the three with the handle of the selected method  *)
(* set; only another method name raises ValueError.                        *)
(***************************************************************************)
C21_FallbackResolvedAtConstruction ==
    /\ construction.pc = "returned" =>
          /\ construction.method \in Methods
          /\ segmenter.method \in Methods
          /\ segmenter.method = ResolvedMethod(construction, WEBRTCVAD_AVAILABLE)
          /\ segmenter.method = "silero" => segmenter.vad_model # None
          /\ segmenter.method = "webrtc" => segmenter.webrtc_vad # None
    /\ construction.pc = "raised" =>
          /\ construction.method \notin Methods
          /\ construction.raised = "ValueError"
          /\ segmenter = None

\* silero requested, the load fails and webrtcvad is missing: fixed
C21_Witness ==
    /\ construction.pc = "returned"
    /\ construction.method = "silero"
    /\ ~construction.hub_load_ok
    /\ ~WEBRTCVAD_AVAILABLE
    /\ segmenter.method = "fixed"

(***************************************************************************)
(* The two while loops of the segmenter, one pass per step:                *)
(*   _segment_fixed:       current_time = 0, windows of                    *)
(*                         min(max_speech_duration, 10.0) up to duration;  *)
(*   _split_long_segment:  current_start = start_time, pieces of           *)
(*                         max_speech_duration up to end_time, for a span  *)
(*                         longer than max_speech_duration.                *)
(* The constructor stores max_speech_duration as given, so zero and        *)
(* negative values are among the configurations.  The list of windows is   *)
(* followed up to MaxWindows entries, more than any audio of the model     *)
(* needs with a window of one tick or more.                                *)
(***************************************************************************)
LoopDurations == {-1, 0, 1, 4, 11}
MaxWindows == MaxAudio + 1

LoopInit ==
    /\ WEBRTCVAD_AVAILABLE = TRUE
    /\ segmenter = None
    /\ audio_data = None
    /\ vad_out = None
    /\ construction = None
    /\ \E mx \in LoopDurations :
          \/ \E duration \in 0..MaxAudio :
                vad_loop = [routine |-> "_segment_fixed",
                            max_speech_duration |-> mx,
                            segment_length |-> Min(mx, FixedCap),
                            current |-> 0,
                            limit |-> duration,
                            segments |-> <<>>,
                            pc |-> "while"]
          \/ \E start_time \in 0..MaxAudio, end_time \in 0..MaxAudio :
                /\ end_time - start_time > mx
                /\ end_time > start_time
                /\ vad_loop = [routine |-> "_split_long_segment",
                               max_speech_duration |-> mx,
                               segment_length |-> mx,
                               current |-> start_time,
                               limit |-> end_time,
                               segments |-> <<>>,
                               pc |-> "while"]
    /\ AsrIdle
    /\ ReconIdle
    /\ SubIdle
    /\ FmtIdle
    /\ RunIdle

\* one pass of the body: append (current, end) and continue from end
LoopPass ==
    /\ vad_loop.pc = "while"
    /\ vad_loop.current < vad_loop.limit
    /\ Len(vad_loop.segments) < MaxWindows
    /\ LET end_time == Min(vad_loop.current + vad_loop.segment_length,
                           vad_loop.limit)
       IN  vad_loop' = [vad_loop EXCEPT
                           !.segments = Append(@, <<vad_loop.current, end_time>>),
                           !.current = end_time]
    /\ UNCHANGED <<WEBRTCVAD_AVAILABLE, segmenter, audio_data, vad_out, construction,
                   asrVars, reconVars, subVars, fmtVars, runVars>>

\* the loop condition is false: return segments
LoopReturn ==
    /\ vad_loop.pc = "while"
    /\ ~(vad_loop.current < vad_loop.limit)
    /\ vad_loop' = [vad_loop EXCEPT !.pc = "returned"]
    /\ UNCHANGED <<WEBRTCVAD_AVAILABLE, segmenter, audio_data, vad_out, construction,
                   asrVars, reconVars, subVars, fmtVars, runVars>>

LoopNext == LoopPass \/ LoopReturn

\* the interpreter always takes the next step of a running loop
SpecLoop == LoopInit /\ [][LoopNext]_vars /\ WF_vars(LoopNext)

MaxSegments == 2       \* longest transcript, in segments

Langs == {"en", "fr", "es"}         \* language codes the ASR reports
Targets == {"en", "fr"}             \* values of --target-lang tried
Texts == {"hello", "hola", ""}      \* stripped segment texts the ASR reports

\* str.upper() on the language codes
upper(lang) ==
    CASE lang = "en" -> "EN"
      [] lang = "fr" -> "FR"
      [] lang = "es" -> "ES"
      [] OTHER -> lang

\* Python truthiness of an optional string
Truthy(x) == x # None /\ x # ""

\* PipelineConfig.__post_init__: the multilingual resolution
post_init(cfg) ==
    IF cfg.multilingual_detection
      THEN [cfg EXCEPT
              !.source_language = IF @ = "auto" THEN "multilingual" ELSE @,
              !.preserve_original_languages =
                  IF ~Truthy(cfg.target_language) THEN TRUE ELSE @]
      ELSE cfg

PipelineConfig(source, target, bilingual, multilingual, preserve, labels) ==
    post_init([source_language |-> source,
               target_language |-> target,
               bilingual_subtitles |-> bilingual,
               multilingual_detection |-> multilingual,
               preserve_original_languages |-> preserve,
               add_language_labels |-> labels])

\* a plausible slip: the --language-labels check is missing
cli_rejects_two_checks(flags) ==
    \/ flags.bilingual /\ ~Truthy(flags.target_lang)
    \/ flags.preserve_languages /\ ~flags.multilingual

\* cli main: the three flag checks that end in sys.exit(1)
cli_rejects(flags) ==
    \/ flags.bilingual /\ ~Truthy(flags.target_lang)
    \/ flags.preserve_languages /\ ~flags.multilingual
    \/ flags.language_labels /\ ~flags.multilingual

\* cli main: the config built from accepted flags
cli_config(flags) ==
    PipelineConfig(
        IF flags.multilingual /\ flags.source_lang = "auto"
          THEN "multilingual" ELSE flags.source_lang,
        flags.target_lang, flags.bilingual, flags.multilingual,
        flags.preserve_languages, flags.language_labels)

CliFlags ==
    [source_lang : {"auto", "en"}, target_lang : Targets \cup {None},
     bilingual : BOOLEAN, multilingual : BOOLEAN,
     preserve_languages : BOOLEAN, language_labels : BOOLEAN]

\* every config the CLI hands to MotherLinePipeline
CliConfigs == { cli_config(f) : f \in { g \in CliFlags : ~cli_rejects(g) } }

(***************************************************************************)
(* The external Argos engine: some text in the target language, different  *)
(* from its input.                                                         *)
(***************************************************************************)
argos_translate(text, target_lang) ==
    IF text = "hello" /\ target_lang = "fr"
      THEN "bonjour"
      ELSE target_lang \o ":" \o text

(***************************************************************************)
(* MotherLineTranslator.translate_text.  engine is what the installed      *)
(* packages and the engine do on this call:                                *)
(*   "ok"          the pair is installed and the engine translates         *)
(*   "pivot_ok"    the pair is missing, both hops through English work     *)
(*   "no_package"  the pair is missing and so is a hop through English     *)
(*   "engine_error" the engine raises inside translate_text, which        *)
(*                 catches it                                              *)
(*   "raises"      the translate_text call itself raises (an exception     *)
(*                 outside its try blocks, or a translator object of       *)
(*                 another kind): the caller's except branch runs          *)
(* Blank text and equal languages return the text itself; every failure    *)
(* caught inside returns the original text as the "translation".           *)
(***************************************************************************)
EngineOutcomes == {"ok", "pivot_ok", "no_package", "engine_error", "raises"}

translate_text(text, source_lang, target_lang, engine) ==
    IF text = ""
      THEN text
      ELSE IF source_lang = target_lang
        THEN text
        ELSE IF engine \in {"pivot_ok", "no_package"}
          THEN IF source_lang # "en" /\ target_lang # "en"
                 THEN IF engine = "pivot_ok"
                        THEN argos_translate(text, target_lang)
                        ELSE text
                 ELSE text
          ELSE IF engine = "ok"
                 THEN argos_translate(text, target_lang)
                 ELSE text

(***************************************************************************)
(* MotherLinePipeline._translate_segments: segments are mutated in place.  *)
(* calls records every translate_text invocation.                          *)
(***************************************************************************)
translate_one(cfg, detected_language, segment, n, engine) ==
    LET source_lang == IF cfg.multilingual_detection
                         THEN segment.language ELSE detected_language
    IN  IF source_lang # cfg.target_language
          THEN IF engine = "raises"
                 THEN LET call == [segment |-> n, text |-> segment.text,
                                   source_lang |-> source_lang,
                                   translated_text |-> segment.text,
                                   raised |-> TRUE]
                      IN  IF cfg.preserve_original_languages
                            THEN [segment |-> [segment EXCEPT
                                                 !.translated_text = segment.text],
                                  calls |-> <<call>>]
                            ELSE [segment |-> segment, calls |-> <<call>>]
                 ELSE
               LET translated_text ==
                       translate_text(segment.text, source_lang,
                                      cfg.target_language, engine)
                   call == [segment |-> n, text |-> segment.text,
                            source_lang |-> source_lang,
                            translated_text |-> translated_text,
                            raised |-> FALSE]
               IN  IF cfg.preserve_original_languages
                     THEN [segment |-> [segment EXCEPT
                                          !.translated_text = translated_text],
                           calls |-> <<call>>]
                     ELSE [segment |-> [segment EXCEPT
                                          !.text = translated_text,
                                          !.language = cfg.target_language],
                           calls |-> <<call>>]
          ELSE IF cfg.preserve_original_languages
                 THEN [segment |-> [segment EXCEPT !.translated_text = segment.text],
                       calls |-> <<>>]
                 ELSE [segment |-> segment, calls |-> <<>>]

RECURSIVE translate_loop(_, _, _, _, _, _)
translate_loop(cfg, detected_language, segments, n, engines, calls) ==
    IF n > Len(segments)
      THEN [segments |-> segments, calls |-> calls]
      ELSE LET r == translate_one(cfg, detected_language, segments[n], n, engines[n])
           IN  translate_loop(cfg, detected_language,
                              [segments EXCEPT ![n] = r.segment],
                              n + 1, engines, calls \o r.calls)

translate_segments(cfg, result, engines) ==
    translate_loop(cfg, result.detected_language, result.segments, 1, engines, <<>>)

(***************************************************************************)
(* The SubtitleSegment dataclass of subtitle/generator.py: its generated   *)
(* constructor accepts the declared field names only; index, start, end    *)
(* and text have no default.                                               *)
(***************************************************************************)
SubtitleSegmentFields == {"index", "start", "end", "text", "translation"}
SubtitleSegmentRequired == {"index", "start", "end", "text"}

TypeError == "TypeError"

SubtitleSegment(kwargs) ==
    IF /\ DOMAIN kwargs \subseteq SubtitleSegmentFields
       /\ SubtitleSegmentRequired \subseteq DOMAIN kwargs
      THEN [raised |-> None,
            object |-> [f \in SubtitleSegmentFields |->
                          IF f \in DOMAIN kwargs THEN kwargs[f] ELSE None]]
      ELSE [raised |-> TypeError, object |-> None]

(***************************************************************************)
(* MotherLinePipeline._create_subtitle_segments                            *)
(***************************************************************************)
\* the text chosen for one segment (the local final_text)
final_text_of(cfg, segment) ==
    LET labelled == cfg.add_language_labels /\ cfg.multilingual_detection
        original_text ==
            IF labelled
              THEN "[" \o upper(segment.language) \o "] " \o segment.text
              ELSE segment.text
        translated_text ==
            IF /\ labelled
               /\ Truthy(segment.translated_text)
               /\ Truthy(cfg.target_language)
              THEN "[" \o upper(cfg.target_language) \o "] " \o segment.translated_text
              ELSE segment.translated_text
    IN  [final_text |->
           IF cfg.bilingual_subtitles /\ Truthy(translated_text)
             THEN original_text \o "\n" \o translated_text
             ELSE IF cfg.preserve_original_languages /\ Truthy(translated_text)
                    THEN IF segment.language = cfg.target_language
                           THEN original_text
                           ELSE translated_text
                    ELSE original_text,
         translated_text |-> translated_text]

\* the keyword arguments of the SubtitleSegment(...) call in the loop
subtitle_kwargs(segment, chosen) ==
    [id |-> segment.id, start |-> segment.start, end |-> segment.end,
     text |-> chosen.final_text, translated_text |-> chosen.translated_text]

RECURSIVE create_loop(_, _, _, _, _)
create_loop(cfg, segments, n, final_texts, subtitle_segments) ==
    IF n > Len(segments)
      THEN [outcome |-> "returned", final_text |-> final_texts,
            subtitle_segments |-> subtitle_segments]
      ELSE LET chosen == final_text_of(cfg, segments[n])
               made == SubtitleSegment(subtitle_kwargs(segments[n], chosen))
           IN  IF made.raised # None
                 THEN [outcome |-> made.raised,
                       final_text |-> Append(final_texts, chosen.final_text),
                       subtitle_segments |-> <<>>]
                 ELSE create_loop(cfg, segments, n + 1,
                                  Append(final_texts, chosen.final_text),
                                  Append(subtitle_segments, made.object))

create_subtitle_segments(cfg, result) ==
    create_loop(cfg, result.segments, 1, <<>>, <<>>)

(***************************************************************************)
(* Specification of the reconciler: a config accepted by the CLI, a        *)
(* transcript from the ASR, then the translation step (when a target       *)
(* language is set) and the construction of the display segments.          *)
(***************************************************************************)
\* TranscriptionSegment objects: without multilingual detection every
\* segment carries the language detected for the whole file
SegmentsOf(cfg, detected_language) ==
    UNION { { [n \in 1..k |->
                 [id |-> n, start |-> n - 1, end |-> n,
                  text |-> t[n], language |-> l[n], translated_text |-> None]]
              : t \in [1..k -> Texts],
                l \in [1..k -> IF cfg.multilingual_detection
                                 THEN Langs ELSE {detected_language}] }
            : k \in 0..MaxSegments }

ReconInit ==
    /\ VadIdle
    /\ AsrIdle
    /\ SubIdle
    /\ RunIdle
    /\ FmtIdle
    /\ config \in CliConfigs
    /\ \E detected_language \in Langs :
          /\ asr_segments \in SegmentsOf(config, detected_language)
          /\ transcription_result = [segments |-> asr_segments,
                                     detected_language |-> detected_language]
    /\ recon = [pc |-> "transcribed", calls |-> <<>>, outcome |-> None,
                final_text |-> <<>>, subtitle_segments |-> <<>>]

\* _execute_pipeline step 4, taken when target_language is set
TranslateSegments ==
    /\ recon.pc = "transcribed"
    /\ Truthy(config.target_language)
    /\ \E engines \in [1..Len(transcription_result.segments) -> EngineOutcomes] :
          LET r == translate_segments(config, transcription_result, engines)
          IN  /\ transcription_result' =
                     [transcription_result EXCEPT !.segments = r.segments]
              /\ recon' = [recon EXCEPT !.pc = "translated", !.calls = r.calls]
    /\ UNCHANGED <<vadVars, asrVars, subVars, fmtVars, runVars, config, asr_segments>>

\* _execute_pipeline step 4 skipped: no target language, no translator
SkipTranslation ==
    /\ recon.pc = "transcribed"
    /\ ~Truthy(config.target_language)
    /\ recon' = [recon EXCEPT !.pc = "translated"]
    /\ UNCHANGED <<vadVars, asrVars, subVars, fmtVars, runVars, config, asr_segments, transcription_result>>

\* _execute_pipeline step 5, first half
CreateSubtitleSegments ==
    /\ recon.pc = "translated"
    /\ LET r == create_subtitle_segments(config, transcription_result)
       IN  recon' = [recon EXCEPT !.pc = "reconciled",
                                  !.outcome = r.outcome,
                                  !.final_text = r.final_text,
                                  !.subtitle_segments = r.subtitle_segments]
    /\ UNCHANGED <<vadVars, asrVars, subVars, fmtVars, runVars, config, asr_segments, transcription_result>>

ReconNext == TranslateSegments \/ SkipTranslation \/ CreateSubtitleSegments

SpecRecon == ReconInit /\ [][ReconNext]_vars

(***************************************************************************)
(* Notions shared by the reconciler claims.                                *)
(***************************************************************************)
\* the language the translation step takes as the source of segment n
SourceLanguage(n) ==
    IF config.multilingual_detection
      THEN asr_segments[n].language
      ELSE transcription_result.detected_language

\* the original text of segment n, with its own [LANG] label when labels are on
LabelledOriginal(n) ==
    IF config.add_language_labels /\ config.multilingual_detection
      THEN "[" \o upper(asr_segments[n].language) \o "] " \o asr_segments[n].text
      ELSE asr_segments[n].text

\* a translation, with the [TARGET] label when labels are on
LabelledTranslation(u) ==
    IF config.add_language_labels /\ config.multilingual_detection
      THEN "[" \o upper(config.target_language) \o "] " \o u
      ELSE u

\* the translate_text calls made for segment n
CallsFor(n) ==
    { recon.calls[i] : i \in { j \in 1..Len(recon.calls) :
                                  recon.calls[j].segment = n } }

\* a translate_text call that produced no translation: it raised, or it
\* returned the text it was given
FailedCall(c) == c.raised \/ (c.text # "" /\ c.translated_text = c.text)

(***************************************************************************)
(* C3: with bilingual_subtitles set, a segment with text T whose           *)
(* translation to the target language succeeded with result U is shown as  *)
(* T, newline, U (each line with its label when labels are on).            *)
(***************************************************************************)
C3_BilingualShowsBothLines ==
    (recon.pc = "reconciled" /\ config.bilingual_subtitles) =>
        \A n \in 1..Len(recon.final_text) :
            \A c \in CallsFor(n) :
                c.translated_text # c.text =>
                    recon.final_text[n] =
                        LabelledOriginal(n) \o "\n"
                            \o LabelledTranslation(c.translated_text)

(***************************************************************************)
(* C4: in preserve-original mode with a target language, a segment whose   *)
(* language is the target language is shown as its original text (with     *)
(* its own label when labels are on).                                      *)
(***************************************************************************)
C4_PreserveKeepsTargetLanguageText ==
    (/\ recon.pc = "reconciled"
     /\ config.preserve_original_languages
     /\ Truthy(config.target_language)) =>
        \A n \in 1..Len(recon.final_text) :
            asr_segments[n].language = config.target_language =>
                recon.final_text[n] = LabelledOriginal(n)

(***************************************************************************)
(* C5: a segment whose source language equals target_language is not sent  *)
(* to the translator, keeps its text and language through the translation  *)
(* step, and is shown as its original text.                                *)
(***************************************************************************)
C5_SameLanguageShownUnchanged ==
    recon.pc = "reconciled" =>
        \A n \in 1..Len(asr_segments) :
            SourceLanguage(n) = config.target_language =>
                /\ CallsFor(n) = {}
                /\ transcription_result.segments[n].text = asr_segments[n].text
                /\ transcription_result.segments[n].language = asr_segments[n].language
                /\ recon.outcome = "returned"
                /\ n <= Len(recon.subtitle_segments)
                /\ recon.subtitle_segments[n].text = asr_segments[n].text

(***************************************************************************)
(* C24: a translation failure for one segment is absorbed: the             *)
(* translation step does not raise, every other segment is still           *)
(* processed, the failing segment keeps its original text, in              *)
(* preserve-original mode its translated_text is its original text, and    *)
(* the text shown for it is its original text.                             *)
(***************************************************************************)
C24_TranslationFailureAbsorbed ==
    recon.pc \in {"translated", "reconciled"} =>
        \A n \in 1..Len(asr_segments) :
            \A c \in CallsFor(n) :
                FailedCall(c) =>
                    /\ \A m \in 1..Len(asr_segments) :
                          SourceLanguage(m) # config.target_language
                              => CallsFor(m) # {}
                    /\ transcription_result.segments[n].text = asr_segments[n].text
                    /\ config.preserve_original_languages =>
                          transcription_result.segments[n].translated_text
                              = asr_segments[n].text
                    /\ (recon.pc = "reconciled" /\ n <= Len(recon.final_text)) =>
                          recon.final_text[n] = LabelledOriginal(n)

(***************************************************************************)
(* C30: in non-preserving mode a segment's language is the target          *)
(* language only if its text was replaced by a translation; when the       *)
(* translation of a segment fails, the segment keeps its original text     *)
(* and its original language.                                              *)
(***************************************************************************)
C30_LanguageChangesOnlyWithText ==
    (/\ recon.pc \in {"translated", "reconciled"}
     /\ ~config.preserve_original_languages) =>
        \A n \in 1..Len(asr_segments) :
            LET segment == transcription_result.segments[n]
            IN  /\ segment.language # asr_segments[n].language =>
                      \E c \in CallsFor(n) :
                          /\ ~FailedCall(c)
                          /\ segment.text = c.translated_text
                /\ \A c \in CallsFor(n) :
                      FailedCall(c) =>
                          /\ segment.text = asr_segments[n].text
                          /\ segment.language = asr_segments[n].language

(***************************************************************************)
(* C25: a segment whose transcript text is blank is dropped by the         *)
(* reconciler in every configuration: no display text is chosen and no     *)
(* display segment is built for it, with language labels on as well        *)
(* (where the label would be prefixed to the blank text).                  *)
(***************************************************************************)
C25_BlankSegmentsDropped ==
    recon.pc = "reconciled" =>
        \A n \in 1..Len(recon.final_text) :
            /\ asr_segments[n].text # ""
            /\ recon.final_text[n] \notin
                  {""} \cup { "[" \o upper(l) \o "] " : l \in Langs }

(***************************************************************************)
(* Time codes (subtitle/generator.py).  Times are integers in              *)
(* milliseconds: the float seconds of the code times 1000.                 *)
(***************************************************************************)
MaxHours == 2          \* longest formatted time, in whole hours

RECURSIVE zeros(_)
zeros(k) == IF k <= 0 THEN "" ELSE "0" \o zeros(k - 1)

\* Python's format spec 0<width>d: sign-aware zero padding
zero_pad(n, width) ==
    IF n < 0
      THEN "-" \o zeros(width - 1 - Len(ToString(0 - n))) \o ToString(0 - n)
      ELSE zeros(width - Len(ToString(n))) \o ToString(n)

\* a plausible slip: the minutes are not reduced modulo the hour
format_vtt_time_total_minutes(ms) ==
    LET hours == ms \div (3600 * 1000)
        minutes == ms \div (60 * 1000)
        secs == ms % (60 * 1000)
    IN  zero_pad(hours, 2) \o ":" \o zero_pad(minutes, 2) \o ":"
            \o zero_pad(secs \div 1000, 2) \o "." \o zero_pad(secs % 1000, 3)

\* _format_vtt_time: f"{hours:02d}:{minutes:02d}:{secs:06.3f}", with
\*   hours = int(seconds // 3600), minutes = int((seconds % 3600) // 60),
\*   secs = seconds % 60; a whole number of milliseconds prints exactly
format_vtt_time(ms) ==
    LET hours == ms \div (3600 * 1000)
        minutes == (ms % (3600 * 1000)) \div (60 * 1000)
        secs == ms % (60 * 1000)
    IN  zero_pad(hours, 2) \o ":" \o zero_pad(minutes, 2) \o ":"
            \o zero_pad(secs \div 1000, 2) \o "." \o zero_pad(secs % 1000, 3)

\* _format_ass_time: f"{hours:01d}:{minutes:02d}:{secs:05.2f}"; .2f rounds
\* secs to centiseconds, and a value half way between two centiseconds goes
\* up or down with the binary value of the float (half_up)
format_ass_time(ms, half_up) ==
    LET hours == ms \div (3600 * 1000)
        minutes == (ms % (3600 * 1000)) \div (60 * 1000)
        secs == ms % (60 * 1000)
        rest == secs % 10
        centis == (secs \div 10)
                    + (IF rest > 5 \/ (rest = 5 /\ half_up) THEN 1 ELSE 0)
    IN  zero_pad(hours, 1) \o ":" \o zero_pad(minutes, 2) \o ":"
            \o zero_pad(centis \div 100, 2) \o "." \o zero_pad(centis % 100, 2)

\* the srt library's time code for timedelta(seconds=...): HH:MM:SS,mmm
\* by divmod of the whole seconds and microseconds // 1000
srt_timestamp(ms) ==
    LET total_seconds == ms \div 1000
        hrs == total_seconds \div 3600
        mins == (total_seconds % 3600) \div 60
        secs == total_seconds % 60
    IN  zero_pad(hrs, 2) \o ":" \o zero_pad(mins, 2) \o ":"
            \o zero_pad(secs, 2) \o "," \o zero_pad(ms % 1000, 3)

(***************************************************************************)
(* Specification of the formatters: one time, formatted by any of them.    *)
(***************************************************************************)
SampleTimes ==
    { ((h * 60 + m) * 60 + sec) * 1000 + f :
          h \in 0..MaxHours, m \in {0, 1, 59}, sec \in {0, 30, 59},
          f \in {0, 5, 500, 990, 995, 999} }

FmtInit ==
    /\ VadIdle
    /\ AsrIdle
    /\ ReconIdle
    /\ SubIdle
    /\ RunIdle
    /\ seconds \in SampleTimes
    /\ formatted = [format |-> None, text |-> ""]

FormatVttTime ==
    /\ formatted' = [format |-> "vtt", text |-> format_vtt_time(seconds)]
    /\ UNCHANGED <<vadVars, asrVars, reconVars, subVars, runVars, seconds>>

FormatAssTime ==
    /\ \E half_up \in BOOLEAN :
          formatted' = [format |-> "ass", text |-> format_ass_time(seconds, half_up)]
    /\ UNCHANGED <<vadVars, asrVars, reconVars, subVars, runVars, seconds>>

FormatSrtTime ==
    /\ formatted' = [format |-> "srt", text |-> srt_timestamp(seconds)]
    /\ UNCHANGED <<vadVars, asrVars, reconVars, subVars, runVars, seconds>>

FmtNext == FormatVttTime \/ FormatAssTime \/ FormatSrtTime

SpecFmt == FmtInit /\ [][FmtNext]_vars

(***************************************************************************)
(* C10: a non-negative time in whole milliseconds has the VTT time code    *)
(* HH:MM:SS.mmm with HH = t div 3600 s, MM and SS in 00..59 and mmm in     *)
(* 000..999, all zero-padded; a time in whole centiseconds has the ASS     *)
(* time code H:MM:SS.cc; 90.5 s reads 00:01:30.500 (VTT), 0:01:30.50 (ASS) *)
(* and 00:01:30,500 (SRT).                                                 *)
(***************************************************************************)
TwoDigits(n) == IF n < 10 THEN "0" \o ToString(n) ELSE ToString(n)

ThreeDigits(n) == IF n < 100 THEN "0" \o TwoDigits(n) ELSE ToString(n)

\* the fields of the time t, read off its value in each unit
HourField(t) == t \div 3600000
MinuteField(t) == (t \div 60000) % 60
SecondField(t) == (t \div 1000) % 60
MilliField(t) == t % 1000
CentiField(t) == (t \div 10) % 100

C10_TimeCodes ==
    formatted.format # None =>
        /\ formatted.format = "vtt" =>
              formatted.text =
                  TwoDigits(HourField(seconds)) \o ":"
                      \o TwoDigits(MinuteField(seconds)) \o ":"
                      \o TwoDigits(SecondField(seconds)) \o "."
                      \o ThreeDigits(MilliField(seconds))
        /\ (formatted.format = "ass" /\ seconds % 10 = 0) =>
              formatted.text =
                  ToString(HourField(seconds)) \o ":"
                      \o TwoDigits(MinuteField(seconds)) \o ":"
                      \o TwoDigits(SecondField(seconds)) \o "."
                      \o TwoDigits(CentiField(seconds))
        /\ seconds = 90500 =>
              formatted.text =
                  CASE formatted.format = "vtt" -> "00:01:30.500"
                    [] formatted.format = "ass" -> "0:01:30.50"
                    [] formatted.format = "srt" -> "00:01:30,500"

\* 90.5 s formatted for VTT
C10_Witness ==
    /\ seconds = 90500
    /\ formatted.format = "vtt"
    /\ formatted.text = "00:01:30.500"

(***************************************************************************)
(* SubtitleGenerator (subtitle/generator.py).  A segment list is a list    *)
(* of references to SubtitleSegment objects; validate_segments changes     *)
(* the objects themselves.                                                 *)
(***************************************************************************)
MaxSubtitles == 2      \* longest segment list handed to the generator
MaxPasses == 2         \* validate_segments passes in one behaviour

MinVisible == 1000     \* the 1.0 s of end = start + 1.0
max_duration == 10000  \* the 10.0 s of max_duration

\* SubtitleSegment objects the generator may be handed: valid ones, equal or
\* reversed times, negative times, a span longer than 10 s, blank text,
\* multi-line text, padded text, repeated and unordered index values
SampleSegments ==
    { [index |-> 1, start |-> 0,     end |-> 2000,  text |-> "hi",    translation |-> None],
      [index |-> 1, start |-> 90500, end |-> 90500, text |-> "hello", translation |-> "bonjour"],
      [index |-> 7, start |-> -500,  end |-> 1000,  text |-> "a\nb",  translation |-> None],
      [index |-> 0, start |-> 1000,  end |-> 12000, text |-> "long",  translation |-> "lang"],
      [index |-> 3, start |-> 2000,  end |-> 3000,  text |-> " ",     translation |-> None],
      [index |-> 2, start |-> 3000,  end |-> 1000,  text |-> "",      translation |-> "x"],
      [index |-> 5, start |-> -2000, end |-> -1000, text |-> " pad ", translation |-> None],
      [index |-> 2, start |-> 500,   end |-> 10500, text |-> "ten",   translation |-> " "] }

SegmentLists == UNION { [1..k -> SampleSegments] : k \in 0..MaxSubtitles }

\* str.strip() on the texts above
strip(text) ==
    CASE text = " " -> ""
      [] text = " pad " -> "pad"
      [] OTHER -> text

\* "not text or not text.strip()"
Blank(text) == ~Truthy(text) \/ ~Truthy(strip(text))

(***************************************************************************)
(* validate_segments                                                       *)
(***************************************************************************)
\* if segment.start < 0: segment.start = 0
clamp_start(segment) ==
    IF segment.start < 0 THEN [segment EXCEPT !.start = 0] ELSE segment

\* a plausible slip: the end is pushed one second on instead of being set
\* one second after the start
repair_end_added(segment) ==
    IF segment.end <= segment.start
      THEN [segment EXCEPT !.end = segment.end + MinVisible]
      ELSE segment

\* a plausible slip: equal times are let through
repair_end_strict(segment) ==
    IF segment.end < segment.start
      THEN [segment EXCEPT !.end = segment.start + MinVisible]
      ELSE segment

\* if segment.end <= segment.start: segment.end = segment.start + 1.0
repair_end(segment) ==
    IF segment.end <= segment.start
      THEN [segment EXCEPT !.end = segment.start + MinVisible]
      ELSE segment

\* if segment.end - segment.start > max_duration: clip the end
clamp_duration(segment) ==
    IF segment.end - segment.start > max_duration
      THEN [segment EXCEPT !.end = segment.start + max_duration]
      ELSE segment

\* the loop: objects is the heap, refs the list passed in; a blank segment
\* has its times repaired and is then left out of the result
RECURSIVE validate_loop(_, _, _, _)
validate_loop(objects, refs, n, validated_segments) ==
    IF n > Len(refs)
      THEN [objects |-> objects, validated_segments |-> validated_segments]
      ELSE LET ref == refs[n]
               timed == repair_end(clamp_start(objects[ref]))
           IN  IF Blank(timed.text)
                 THEN validate_loop([objects EXCEPT ![ref] = timed], refs, n + 1,
                                    validated_segments)
                 ELSE validate_loop([objects EXCEPT ![ref] = clamp_duration(timed)],
                                    refs, n + 1, Append(validated_segments, ref))

validate_segments(objects, refs) == validate_loop(objects, refs, 1, <<>>)

\* the start, end and text of the segments of a list, in list order
Contents(objects, refs) ==
    [n \in 1..Len(refs) |->
        [ref |-> refs[n], start |-> objects[refs[n]].start,
         end |-> objects[refs[n]].end, text |-> objects[refs[n]].text]]

(***************************************************************************)
(* Specification of validation: a list of segments; validate_segments is   *)
(* called on it, and then again on the list it returned.                   *)
(***************************************************************************)
AllRefs == [n \in 1..Len(subtitle_objects) |-> n]

SubInit ==
    /\ VadIdle
    /\ AsrIdle
    /\ ReconIdle
    /\ FmtIdle
    /\ RunIdle
    /\ given_segments \in SegmentLists
    /\ subtitle_objects = given_segments
    /\ validation = [passes |-> 0, returned |-> None, results |-> <<>>]
    /\ rendered = [format |-> None, source |-> None, passes |-> 0,
                   use_translation |-> FALSE, segments |-> <<>>, blocks |-> <<>>]

\* validate_segments(X)
ValidateGiven ==
    /\ validation.passes = 0
    /\ LET r == validate_segments(subtitle_objects, AllRefs)
       IN  /\ subtitle_objects' = r.objects
           /\ validation' =
                 [passes |-> 1, returned |-> r.validated_segments,
                  results |-> <<Contents(r.objects, r.validated_segments)>>]
    /\ UNCHANGED <<vadVars, asrVars, reconVars, fmtVars, runVars, given_segments, rendered>>

\* validate_segments(validate_segments(X)): the list returned is passed again
ValidateAgain ==
    /\ validation.passes >= 1
    /\ validation.passes < MaxPasses
    /\ LET r == validate_segments(subtitle_objects, validation.returned)
       IN  /\ subtitle_objects' = r.objects
           /\ validation' =
                 [passes |-> validation.passes + 1,
                  returned |-> r.validated_segments,
                  results |-> Append(validation.results,
                                     Contents(r.objects, r.validated_segments))]
    /\ UNCHANGED <<vadVars, asrVars, reconVars, fmtVars, runVars, given_segments, rendered>>

(***************************************************************************)
(* The renderers.  A rendered file is kept as the list of its blocks: the  *)
(* index line read back as a number (SRT only), the times of the cue, the  *)
(* two time codes as written, and the content.                             *)
(***************************************************************************)
\* text = segment.translation if use_translation and segment.translation
\*        else segment.text
chosen_text(segment, use_translation) ==
    IF use_translation /\ segment.translation # None /\ Truthy(segment.translation)
      THEN segment.translation
      ELSE segment.text

\* the srt.Subtitle objects collected by generate_srt, blank text skipped
RECURSIVE srt_subtitles_loop(_, _, _, _, _)
srt_subtitles_loop(objects, refs, use_translation, n, srt_subtitles) ==
    IF n > Len(refs) THEN srt_subtitles
    ELSE LET segment == objects[refs[n]]
             text == chosen_text(segment, use_translation)
         IN  IF Blank(text)
               THEN srt_subtitles_loop(objects, refs, use_translation, n + 1,
                                       srt_subtitles)
               ELSE srt_subtitles_loop(objects, refs, use_translation, n + 1,
                        Append(srt_subtitles,
                               [index |-> segment.index, start |-> segment.start,
                                end |-> segment.end, content |-> strip(text)]))

\* srt.Subtitle ordering: by start, then end, then index
subtitle_lt(a, b) ==
    \/ a.start < b.start
    \/ a.start = b.start /\ a.end < b.end
    \/ a.start = b.start /\ a.end = b.end /\ a.index < b.index

\* sorted(subtitles): stable
RECURSIVE insert_sorted(_, _)
insert_sorted(sorted_subs, sub) ==
    IF sorted_subs = <<>> THEN <<sub>>
    ELSE IF subtitle_lt(sub, sorted_subs[Len(sorted_subs)])
           THEN Append(insert_sorted(SubSeq(sorted_subs, 1, Len(sorted_subs) - 1), sub),
                       sorted_subs[Len(sorted_subs)])
           ELSE Append(sorted_subs, sub)

RECURSIVE sorted(_, _)
sorted(subtitles, n) ==
    IF n = 0 THEN <<>> ELSE insert_sorted(sorted(subtitles, n - 1), subtitles[n])

\* the library leaves out a subtitle with no content, a negative start, or
\* a start after its end; whether start = end is left out as well differs
\* between releases of the library (skip_equal)
should_skip_sub(subtitle, skip_equal) ==
    \/ strip(subtitle.content) = ""
    \/ subtitle.start < 0
    \/ subtitle.start > subtitle.end
    \/ skip_equal /\ subtitle.start = subtitle.end

\* sort_and_reindex(start_index=1, skip=True), then to_srt of each subtitle
RECURSIVE reindex_loop(_, _, _, _, _)
reindex_loop(subs, skip_equal, n, skipped_subs, blocks) ==
    IF n > Len(subs) THEN blocks
    ELSE IF should_skip_sub(subs[n], skip_equal)
           THEN reindex_loop(subs, skip_equal, n + 1, skipped_subs + 1, blocks)
           ELSE reindex_loop(subs, skip_equal, n + 1, skipped_subs,
                    Append(blocks,
                           [index_line |-> ToString(n - skipped_subs),
                            start |-> subs[n].start, end |-> subs[n].end,
                            start_time |-> srt_timestamp(subs[n].start),
                            end_time |-> srt_timestamp(subs[n].end),
                            content |-> subs[n].content]))

\* srt.compose(srt_subtitles): reindex=True, start_index=1
srt_compose(srt_subtitles, skip_equal) ==
    reindex_loop(sorted(srt_subtitles, Len(srt_subtitles)), skip_equal, 1, 0, <<>>)

generate_srt(objects, refs, use_translation, skip_equal) ==
    srt_compose(srt_subtitles_loop(objects, refs, use_translation, 1, <<>>), skip_equal)

\* the cues written by generate_vtt, blank text skipped
RECURSIVE vtt_loop(_, _, _, _, _)
vtt_loop(objects, refs, use_translation, n, vtt_content) ==
    IF n > Len(refs) THEN vtt_content
    ELSE LET segment == objects[refs[n]]
             text == chosen_text(segment, use_translation)
         IN  IF Blank(text)
               THEN vtt_loop(objects, refs, use_translation, n + 1, vtt_content)
               ELSE vtt_loop(objects, refs, use_translation, n + 1,
                        Append(vtt_content,
                               [index_line |-> "",
                                start |-> segment.start, end |-> segment.end,
                                start_time |-> format_vtt_time(segment.start),
                                end_time |-> format_vtt_time(segment.end),
                                content |-> strip(text)]))

generate_vtt(objects, refs, use_translation) ==
    vtt_loop(objects, refs, use_translation, 1, <<>>)

\* the Dialogue events written by generate_ass, blank text skipped
RECURSIVE ass_loop(_, _, _, _, _, _)
ass_loop(objects, refs, use_translation, half_up, n, ass_content) ==
    IF n > Len(refs) THEN ass_content
    ELSE LET segment == objects[refs[n]]
             text == chosen_text(segment, use_translation)
         IN  IF Blank(text)
               THEN ass_loop(objects, refs, use_translation, half_up, n + 1,
                             ass_content)
               ELSE ass_loop(objects, refs, use_translation, half_up, n + 1,
                        Append(ass_content,
                               [index_line |-> "",
                                start |-> segment.start, end |-> segment.end,
                                start_time |-> format_ass_time(segment.start, half_up),
                                end_time |-> format_ass_time(segment.end, half_up),
                                content |-> strip(text)]))

generate_ass(objects, refs, use_translation, half_up) ==
    ass_loop(objects, refs, use_translation, half_up, 1, <<>>)

\* the lines a text occupies in a written file: it is cut at every newline
\* it contains (of the texts above only "a\nb" contains one)
splitlines(text) == IF text = "a\nb" THEN <<"a", "b">> ELSE <<text>>

\* the lines of the file under the [Events] header: each event is written as
\* "Dialogue: 0,<start>,<end>,Default,,0,0,0,,<text.strip()>\n" with the text
\* as it is, so the first line of the text follows the event fields (head)
\* and every further line of the text is a line of the file with no head
RECURSIVE ass_event_lines(_, _, _)
ass_event_lines(ass_content, n, lines) ==
    IF n > Len(ass_content) THEN lines
    ELSE LET event == ass_content[n]
             text_lines == splitlines(event.content)
             head == "Dialogue: 0," \o event.start_time \o "," \o event.end_time
                         \o ",Default,,0,0,0,,"
         IN  ass_event_lines(ass_content, n + 1,
                 lines \o [k \in 1..Len(text_lines) |->
                              [head |-> IF k = 1 THEN head ELSE "",
                               text |-> text_lines[k]]])

\* the srt.Subtitle objects collected by generate_bilingual_srt: the text,
\* and under it the translation when there is one
RECURSIVE bilingual_loop(_, _, _, _)
bilingual_loop(objects, refs, n, srt_subtitles) ==
    IF n > Len(refs) THEN srt_subtitles
    ELSE LET segment == objects[refs[n]]
             bilingual_text ==
                 IF segment.translation # None /\ Truthy(segment.translation)
                    /\ Truthy(strip(segment.translation))
                   THEN strip(segment.text) \o "\n" \o strip(segment.translation)
                   ELSE strip(segment.text)
         IN  IF Blank(segment.text)
               THEN bilingual_loop(objects, refs, n + 1, srt_subtitles)
               ELSE bilingual_loop(objects, refs, n + 1,
                        Append(srt_subtitles,
                               [index |-> segment.index, start |-> segment.start,
                                end |-> segment.end, content |-> bilingual_text]))

generate_bilingual_srt(objects, refs, skip_equal) ==
    srt_compose(bilingual_loop(objects, refs, 1, <<>>), skip_equal)

\* the lists a renderer can be handed: the list as it was given (what
\* _generate_subtitle_files passes on), or the list validate_segments
\* returned
RenderInputs ==
    {[source |-> "given", refs |-> AllRefs]}
      \cup (IF validation.passes >= 1
              THEN {[source |-> "validated", refs |-> validation.returned]}
              ELSE {})

Render(format, input, use_translation, blocks) ==
    /\ rendered.format = None
    /\ rendered' = [format |-> format, source |-> input.source,
                    passes |-> validation.passes,
                    use_translation |-> use_translation,
                    segments |-> [n \in 1..Len(input.refs) |->
                                     subtitle_objects[input.refs[n]]],
                    blocks |-> blocks]
    /\ UNCHANGED <<vadVars, asrVars, reconVars, fmtVars, runVars, given_segments,
                   subtitle_objects, validation>>

GenerateSrt ==
    \E input \in RenderInputs, use_translation \in BOOLEAN, skip_equal \in BOOLEAN :
        Render("srt", input, use_translation,
               generate_srt(subtitle_objects, input.refs, use_translation, skip_equal))

GenerateVtt ==
    \E input \in RenderInputs, use_translation \in BOOLEAN :
        Render("vtt", input, use_translation,
               generate_vtt(subtitle_objects, input.refs, use_translation))

GenerateAss ==
    \E input \in RenderInputs, use_translation \in BOOLEAN, half_up \in BOOLEAN :
        Render("ass", input, use_translation,
               generate_ass(subtitle_objects, input.refs, use_translation, half_up))

GenerateBilingualSrt ==
    \E input \in RenderInputs, skip_equal \in BOOLEAN :
        Render("bilingual_srt", input, FALSE,
               generate_bilingual_srt(subtitle_objects, input.refs, skip_equal))

SubNext ==
    \/ ValidateGiven
    \/ ValidateAgain
    \/ GenerateSrt
    \/ GenerateVtt
    \/ GenerateAss
    \/ GenerateBilingualSrt

SpecSub == SubInit /\ [][SubNext]_vars

(***************************************************************************)
(* Claims about validation and rendering                                   *)
(***************************************************************************)
\* the start a segment has after validation
RepairedStart(segment) == IF segment.start < 0 THEN 0 ELSE segment.start

\* the end a segment with text has after validation
RepairedEnd(segment) ==
    LET s == RepairedStart(segment)
    IN  IF segment.end <= s THEN s + MinVisible
        ELSE IF segment.end - s > max_duration THEN s + max_duration
        ELSE segment.end

\* the positions of a list whose segment has text, in list order
RECURSIVE WithText(_, _)
WithText(segs, n) ==
    IF n = 0 THEN <<>>
    ELSE IF Blank(segs[n].text) THEN WithText(segs, n - 1)
         ELSE Append(WithText(segs, n - 1), n)

\* C6: validate_segments is idempotent: validate_segments applied to the
\* list validate_segments returned gives the same sequence of segments with
\* the same start, end and text, for every input list (negative start,
\* end <= start, duration over 10 s, blank text included).
C6_ValidateIdempotent ==
    validation.passes >= 2 =>
        \A k \in 2..Len(validation.results) :
            validation.results[k] = validation.results[1]

\* a second pass has run on a list of which the first pass repaired one
\* segment and dropped another
C6_Witness ==
    /\ validation.passes = 2
    /\ Len(given_segments) = 2
    /\ Len(validation.results[2]) = 1
    /\ given_segments[validation.returned[1]].end
           # subtitle_objects[validation.returned[1]].end

\* C7: validate_segments returns, and every segment it returns has
\* start >= 0, end > start, end - start <= 10.0 and text that is not blank;
\* a segment with text that arrives with end <= start is kept and gets
\* end = start + 1.0 (start clamped to 0 first), and a segment longer than
\* 10.0 s is kept and clipped to end = start + 10.0; only blank segments are
\* left out.
C7_ValidatedSegmentsRepaired ==
    validation.passes >= 1 =>
        LET out == validation.results[1]
            kept == WithText(given_segments, Len(given_segments))
        IN  /\ \A n \in 1..Len(out) :
                  /\ out[n].start >= 0
                  /\ out[n].end > out[n].start
                  /\ out[n].end - out[n].start <= max_duration
                  /\ ~Blank(out[n].text)
            /\ Len(out) = Len(kept)
            /\ \A n \in 1..Len(out) :
                  /\ out[n].ref = kept[n]
                  /\ out[n].start = RepairedStart(given_segments[kept[n]])
                  /\ out[n].end = RepairedEnd(given_segments[kept[n]])
                  /\ out[n].text = given_segments[kept[n]].text

\* validation has returned both a segment that arrived with end <= start
\* and a segment that arrived longer than 10 s
C7_Witness ==
    /\ validation.passes >= 1
    /\ Len(validation.results[1]) = 2
    /\ \E n \in 1..2 : given_segments[n].end <= given_segments[n].start
    /\ \E n \in 1..2 : given_segments[n].end - given_segments[n].start > max_duration

\* C8: every renderer (SRT, VTT, ASS, bilingual SRT) validates before it
\* writes: whatever the input list, every cue in the output has start >= 0,
\* end > start and end - start <= 10.0.
C8_RenderedCuesValidated ==
    rendered.format # None =>
        \A k \in 1..Len(rendered.blocks) :
            /\ rendered.blocks[k].start >= 0
            /\ rendered.blocks[k].end > rendered.blocks[k].start
            /\ rendered.blocks[k].end - rendered.blocks[k].start <= max_duration

\* the number of segments of a list whose chosen text is not blank
RECURSIVE NonBlankCount(_, _, _)
NonBlankCount(segs, use_translation, n) ==
    IF n = 0 THEN 0
    ELSE NonBlankCount(segs, use_translation, n - 1)
           + (IF Blank(chosen_text(segs[n], use_translation)) THEN 0 ELSE 1)

\* C9: rendering to SRT a list in which N segments have text that is not
\* blank gives N blocks whose index lines, in file order, are 1..N, whatever
\* the index values of the input; blank segments leave no gap.
C9_SrtIndicesOneToN ==
    rendered.format = "srt" =>
        /\ Len(rendered.blocks)
             = NonBlankCount(rendered.segments, rendered.use_translation,
                             Len(rendered.segments))
        /\ \A k \in 1..Len(rendered.blocks) :
               rendered.blocks[k].index_line = ToString(k)

(***************************************************************************)
(* C27: after its header the ASS file holds exactly one line per segment   *)
(* whose chosen text is not blank, each beginning with "Dialogue:", for    *)
(* every text, multi-line text (an original, a newline, a translation)     *)
(* included.                                                               *)
(***************************************************************************)
C27_AssOneDialogueLinePerSegment ==
    rendered.format = "ass" =>
        LET lines == ass_event_lines(rendered.blocks, 1, <<>>)
        IN  /\ Len(lines)
                 = NonBlankCount(rendered.segments, rendered.use_translation,
                                 Len(rendered.segments))
            /\ \A k \in 1..Len(lines) : lines[k].head # ""

(***************************************************************************)
(* The command line (cli/main.py, main): the arguments are checked, the    *)
(* PipelineConfig is built, the MotherLinePipeline is constructed.         *)
(***************************************************************************)
\* AudioExtractor(): _check_ffmpeg raises RuntimeError without ffmpeg
AudioExtractor(ffmpeg_found) ==
    IF ffmpeg_found THEN [raised |-> None] ELSE [raised |-> "RuntimeError"]

\* the keyword arguments VADSegmenter.__init__ declares
VADSegmenterParameters ==
    {"method", "aggressiveness", "min_speech_duration", "max_speech_duration",
     "sample_rate"}

\* the call VADSegmenter(method=..., device=...) made by the pipeline
vad_segmenter_call(keywords) ==
    IF keywords \subseteq VADSegmenterParameters
      THEN [raised |-> None] ELSE [raised |-> TypeError]

\* MotherLinePipeline._initialize_components: any exception of a
\* constructor leaves as RuntimeError; the config is read here for the
\* first time
initialize_components(cfg, ffmpeg_found) ==
    IF AudioExtractor(ffmpeg_found).raised # None
      THEN [raised |-> "RuntimeError", cause |-> "AudioExtractor", read |-> <<>>]
    ELSE IF vad_segmenter_call({"method", "device"}).raised # None
      THEN [raised |-> "RuntimeError", cause |-> "VADSegmenter",
            read |-> <<"vad_method", "device">>]
    ELSE [raised |-> None, cause |-> None,
          read |-> <<"vad_method", "device", "mode", "cpu_threads",
                     "target_language">>]

CliInit ==
    /\ VadIdle
    /\ AsrIdle
    /\ ReconIdle
    /\ SubIdle
    /\ FmtIdle
    /\ pipeline = None
    /\ \E flags \in CliFlags, ffmpeg_found \in BOOLEAN :
          cli = [pc |-> "arguments", flags |-> flags, ffmpeg_found |-> ffmpeg_found,
                 configured |-> FALSE, config |-> None,
                 pipeline_in_locals |-> FALSE, cleanup_called |-> FALSE,
                 exit_status |-> None]

\* the three checks: sys.exit(1) or on to the config
ValidateArguments ==
    /\ cli.pc = "arguments"
    /\ cli' = IF cli_rejects(cli.flags)
                THEN [cli EXCEPT !.pc = "exited", !.exit_status = 1]
                ELSE [cli EXCEPT !.pc = "accepted"]
    /\ UNCHANGED <<vadVars, asrVars, reconVars, subVars, fmtVars, pipeline>>

\* config = PipelineConfig(...): __post_init__ runs inside the constructor
CreateConfig ==
    /\ cli.pc = "accepted"
    /\ cli' = [cli EXCEPT !.pc = "configured", !.configured = TRUE,
                          !.config = cli_config(cli.flags)]
    /\ UNCHANGED <<vadVars, asrVars, reconVars, subVars, fmtVars, pipeline>>

\* pipeline = MotherLinePipeline(config): when the constructor raises, the
\* except Exception branch exits with 1 and the finally block finds no
\* 'pipeline' in locals()
InitializePipeline ==
    /\ cli.pc = "configured"
    /\ LET made == initialize_components(cli.config, cli.ffmpeg_found)
       IN  cli' = IF made.raised # None
                    THEN [cli EXCEPT !.pc = "exited", !.exit_status = 1]
                    ELSE [cli EXCEPT !.pc = "constructed",
                                     !.pipeline_in_locals = TRUE]
    /\ UNCHANGED <<vadVars, asrVars, reconVars, subVars, fmtVars, pipeline>>

CliNext ==
    \/ ValidateArguments
    \/ CreateConfig
    \/ InitializePipeline

SpecCli == CliInit /\ [][CliNext]_vars

(***************************************************************************)
(* Claims about the configuration                                          *)
(***************************************************************************)
\* the fields as the arguments give them, before any resolution
AsPassed(flags) ==
    [source_language |-> flags.source_lang,
     target_language |-> flags.target_lang,
     bilingual_subtitles |-> flags.bilingual,
     multilingual_detection |-> flags.multilingual,
     preserve_original_languages |-> flags.preserve_languages,
     add_language_labels |-> flags.language_labels]

\* C18: a config constructed with multilingual_detection = true has
\* source_language = "multilingual" whatever source language was passed and,
\* with no target language, preserve_original_languages = true, and this
\* holds from the construction of the config on (before the pipeline reads
\* it); a config with multilingual_detection = false is left as passed.
C18_MultilingualResolvedAtConstruction ==
    cli.configured =>
        /\ cli.flags.multilingual =>
              /\ cli.config.source_language = "multilingual"
              /\ ~Truthy(cli.flags.target_lang)
                     => cli.config.preserve_original_languages
        /\ ~cli.flags.multilingual => cli.config = AsPassed(cli.flags)

\* the invariants a config is to satisfy
ConfigInvariants(cfg) ==
    /\ cfg.bilingual_subtitles => Truthy(cfg.target_language)
    /\ cfg.preserve_original_languages => cfg.multilingual_detection
    /\ cfg.add_language_labels => cfg.multilingual_detection

C20_BilingualAndPreserveExclusive ==
    cli.configured =>
        ~(cli.config.bilingual_subtitles /\ cli.config.preserve_original_languages)

(***************************************************************************)
(* MotherLinePipeline.process_file (core/pipeline.py).  The pipeline calls *)
(* its components through attributes; a component is either the class of   *)
(* this repository ("repository") or any object that offers the method the *)
(* pipeline calls with the arguments it passes ("interface"), whose call   *)
(* returns or raises.                                                      *)
(***************************************************************************)
MaxFormats == 2        \* longest output_formats list
MaxTranscript == 1     \* most segments in the transcript of a run

Kinds == {"repository", "interface"}

\* --format: click.Choice(['srt', 'vtt', 'ass'])
OutputFormats == {"srt", "vtt", "ass"}
FormatLists == UNION { [1..k -> OutputFormats] : k \in 1..MaxFormats }

\* the configs of the runs: PipelineConfig with embed_subtitles and
\* output_formats
PipelineConfigs ==
    { [source_language |-> c.source_language,
       target_language |-> c.target_language,
       bilingual_subtitles |-> c.bilingual_subtitles,
       multilingual_detection |-> c.multilingual_detection,
       preserve_original_languages |-> c.preserve_original_languages,
       add_language_labels |-> c.add_language_labels,
       embed_subtitles |-> e,
       output_formats |-> f] :
        c \in { PipelineConfig("auto", t, FALSE, m, FALSE, FALSE) :
                   t \in {None, "fr"}, m \in BOOLEAN },
        e \in BOOLEAN, f \in FormatLists }

\* what the ASR may deliver: TranscriptionSegment objects
TranscriptSegments ==
    [n \in 1..MaxTranscript |->
        [id |-> n, start |-> n - 1, end |-> n, text |-> "hello",
         language |-> "en", translated_text |-> None]]

Transcripts == { SubSeq(TranscriptSegments, 1, k) : k \in 0..MaxTranscript }

\* the stages, and the key under which each records its duration
Stages == <<"ExtractAudio", "Segment", "Transcribe", "Translate", "Render", "Embed">>

stats_key(stage) ==
    CASE stage = "ExtractAudio" -> "audio_extraction"
      [] stage = "Segment" -> "vad_segmentation"
      [] stage = "Transcribe" -> "transcription"
      [] stage = "Translate" -> "translation"
      [] stage = "Render" -> "subtitle_generation"
      [] stage = "Embed" -> "subtitle_embedding"

\* audio_data, sample_rate = self.audio_extractor.extract_audio(str(input_path))
\* the repository's extract_audio returns the path of a .wav file (a str),
\* which does not unpack into two names, or raises RuntimeError
extract_audio_step(kind, raises) ==
    IF kind = "repository"
      THEN IF raises THEN [raised |-> "Erro ao extrair audio"]
           ELSE [raised |-> "too many values to unpack (expected 2)"]
      ELSE IF raises THEN [raised |-> "extract_audio raised"]
           ELSE [raised |-> None]

\* segments = self.vad_segmenter.segment_audio(audio_data, sample_rate)
\* the repository's segment_audio(self, audio_data) takes one argument
segment_audio_step(kind, raises) ==
    IF kind = "repository"
      THEN [raised |-> "segment_audio() takes 2 positional arguments but 3 were given"]
      ELSE IF raises THEN [raised |-> "segment_audio raised"]
           ELSE [raised |-> None]

\* transcription_result = self.whisper_engine.transcribe_multilingual(...)
\*                     or self.whisper_engine.transcribe_audio(...)
\* the repository's WhisperEngine has no transcribe_multilingual, and its
\* transcribe_audio loads the model and then ends in RuntimeError (it uses
\* time.time() and start_time, neither of which is defined in the module)
transcribe_step(kind, cfg, load_ok, raises) ==
    IF kind = "repository"
      THEN IF cfg.multilingual_detection
             THEN [raised |-> "'WhisperEngine' object has no attribute 'transcribe_multilingual'",
                   model_loaded |-> FALSE]
             ELSE [raised |-> "Falha na transcricao", model_loaded |-> load_ok]
      ELSE IF raises THEN [raised |-> "transcribe raised", model_loaded |-> load_ok]
           ELSE [raised |-> None, model_loaded |-> TRUE]

\* output_path / f"{base_name}.<format>", the sidecar and the embedded video
path_of(format_type) == "video." \o format_type
metadata_file == "video_metadata.json"
embedded_video == "video_with_subs.mp4"

\* a plausible slip: the path is appended before the file is generated
RECURSIVE generate_files_loop_path_first(_, _, _, _)
generate_files_loop_path_first(formats, raises, n, output_files) ==
    IF n > Len(formats) THEN output_files
    ELSE generate_files_loop_path_first(formats, raises, n + 1,
                                        Append(output_files, path_of(formats[n])))

generate_subtitle_files_path_first(cfg, raises, metadata_raises) ==
    LET output_files == generate_files_loop_path_first(cfg.output_formats, raises, 1, <<>>)
    IN  IF ~cfg.multilingual_detection
          THEN [raised |-> None, output_files |-> output_files]
        ELSE IF metadata_raises
          THEN [raised |-> "metadata file not written", output_files |-> <<>>]
        ELSE [raised |-> None, output_files |-> Append(output_files, metadata_file)]

\* the loop of _generate_subtitle_files over output_formats.  output_file is
\* the local variable of that name: unbound (None here) until an iteration
\* with one of the three formats binds it, and bound before the generate_*
\* call is made.  raises[n] says whether the generate_* call of the n-th
\* format raises.  An iteration with another format name binds nothing and
\* calls nothing: the append reads output_file, which raises
\* UnboundLocalError (caught by the except of the iteration) while it is
\* unbound and otherwise holds the path of an earlier iteration.
RECURSIVE generate_files_loop(_, _, _, _, _)
generate_files_loop(formats, raises, n, output_file, output_files) ==
    IF n > Len(formats) THEN output_files
    ELSE IF formats[n] \in OutputFormats
      THEN IF raises[n]
             THEN generate_files_loop(formats, raises, n + 1,
                                      path_of(formats[n]), output_files)
             ELSE generate_files_loop(formats, raises, n + 1,
                                      path_of(formats[n]),
                                      Append(output_files, path_of(formats[n])))
      ELSE IF output_file = None
             THEN generate_files_loop(formats, raises, n + 1, output_file,
                                      output_files)
             ELSE generate_files_loop(formats, raises, n + 1, output_file,
                                      Append(output_files, output_file))

\* _generate_subtitle_files: the formats, then the sidecar in multilingual
\* mode, written outside the try
generate_subtitle_files(cfg, raises, metadata_raises) ==
    LET output_files == generate_files_loop(cfg.output_formats, raises, 1, None, <<>>)
    IN  IF ~cfg.multilingual_detection
          THEN [raised |-> None, output_files |-> output_files]
        ELSE IF metadata_raises
          THEN [raised |-> "metadata file not written", output_files |-> <<>>]
        ELSE [raised |-> None, output_files |-> Append(output_files, metadata_file)]

\* step 5: _create_subtitle_segments, then _generate_subtitle_files
render_step(cfg, result, raises, metadata_raises) ==
    LET created == create_subtitle_segments(cfg, result)
    IN  IF created.outcome # "returned"
          THEN [raised |-> "__init__() got an unexpected keyword argument 'id'",
                output_files |-> <<>>]
          ELSE generate_subtitle_files(cfg, raises, metadata_raises)

\* the first .srt file of the list, if any
RECURSIVE first_srt(_, _)
first_srt(subtitle_files, n) ==
    IF n > Len(subtitle_files) THEN None
    ELSE IF subtitle_files[n] = path_of("srt") THEN subtitle_files[n]
    ELSE first_srt(subtitle_files, n + 1)

\* the collaborator's answers to embed_subtitles: the new video, an
\* exception, or a false value (the else branch of "if success")
EmbedOutcomes == {"embedded", "raises", "reports_failure"}

\* a plausible slip: the exception of the collaborator is passed on
embed_subtitles_step_reraising(subtitle_files, outcome) ==
    IF subtitle_files = <<>> \/ first_srt(subtitle_files, 1) = None
      THEN [raised |-> None, embedded_file |-> None]
    ELSE IF outcome = "raises"
      THEN [raised |-> "embed_subtitles raised", embedded_file |-> None]
    ELSE [raised |-> None,
          embedded_file |-> IF outcome = "embedded" THEN embedded_video ELSE None]

\* _embed_subtitles: None without files, without an SRT file, when the
\* collaborator raises or answers false
embed_subtitles_step(subtitle_files, outcome) ==
    IF subtitle_files = <<>> \/ first_srt(subtitle_files, 1) = None
      THEN [raised |-> None, embedded_file |-> None]
    ELSE [raised |-> None,
          embedded_file |-> IF outcome = "embedded" THEN embedded_video ELSE None]

\* a plausible slip: the translation step is entered whatever the config
next_stage_always_translate(cfg, translator, stage) ==
    CASE stage = "ExtractAudio" -> "Segment"
      [] stage = "Segment" -> "Transcribe"
      [] stage = "Transcribe" -> "Translate"
      [] stage = "Translate" -> "Render"
      [] stage = "Render" -> IF cfg.embed_subtitles THEN "Embed" ELSE "Done"
      [] stage = "Embed" -> "Done"

\* the order of the steps in _execute_pipeline
next_stage(cfg, translator, stage) ==
    CASE stage = "ExtractAudio" -> "Segment"
      [] stage = "Segment" -> "Transcribe"
      [] stage = "Transcribe" ->
            IF Truthy(cfg.target_language) /\ translator # None
              THEN "Translate" ELSE "Render"
      [] stage = "Translate" -> "Render"
      [] stage = "Render" -> IF cfg.embed_subtitles THEN "Embed" ELSE "Done"
      [] stage = "Embed" -> "Done"

\* a plausible slip: the message of the exception is not kept
failure_result_without_message(message) ==
    [success |-> FALSE, error_message |-> None, output_files |-> <<>>,
     stats_in_metadata |-> FALSE]

\* the except branch of process_file: ProcessingResult(success=False,
\* error_message=str(e), processing_time=...)
failure_result(message) ==
    [success |-> FALSE, error_message |-> message, output_files |-> <<>>,
     stats_in_metadata |-> FALSE]

\* MotherLinePipeline.cleanup: whisper_engine.cleanup(), then
\* translator.cleanup() when there is a translator, every exception logged
\* and dropped.  WhisperEngine and MotherLineTranslator define no cleanup
\* method (WhisperEngine has unload_model), so with the repository's engine
\* the first call ends in AttributeError and nothing is released
cleanup(p, engine_raises, translator_raises) ==
    IF p.components.whisper_engine = "repository" \/ engine_raises
      THEN p
    ELSE IF p.translator = None \/ p.translator = "repository" \/ translator_raises
      THEN [p EXCEPT !.model_loaded = FALSE]
    ELSE [p EXCEPT !.model_loaded = FALSE, !.translator_released = TRUE]

(***************************************************************************)
(* Specification of a run: a pipeline object with its components, one      *)
(* process_file call stage by stage, and the cleanup the caller makes when *)
(* the call has ended (main's finally block, __exit__).                    *)
(***************************************************************************)
PipeInit ==
    /\ VadIdle
    /\ AsrIdle
    /\ ReconIdle
    /\ SubIdle
    /\ FmtIdle
    /\ cli = None
    /\ \E cfg \in PipelineConfigs, extractor_kind \in Kinds,
          segmenter_kind \in Kinds, engine_kind \in Kinds,
          translator_kind \in Kinds, input_exists \in BOOLEAN,
          transcript \in Transcripts :
          pipeline =
            [config |-> cfg,
             components |-> [audio_extractor |-> extractor_kind,
                             vad_segmenter |-> segmenter_kind,
                             whisper_engine |-> engine_kind],
             \* self.translator = None unless target_language is set
             translator |-> IF Truthy(cfg.target_language)
                             THEN translator_kind ELSE None,
             input_exists |-> input_exists,
             transcript |-> transcript,
             pc |-> "ready",
             stages |-> <<>>,
             processing_stats |-> {},
             segments |-> <<>>,
             render_raises |-> <<>>,
             output_files |-> <<>>,
             embed_outcome |-> None,
             failed_stage |-> None,
             raised |-> None,
             exit |-> None,
             result |-> failure_result(None),
             model_loaded |-> FALSE,
             translator_released |-> FALSE,
             cleanup_calls |-> 0]

\* a stage has raised: the except branch of process_file
Failed(stage, message) ==
    [pipeline EXCEPT !.pc = "exited", !.exit = "returned",
                     !.stages = Append(@, stage),
                     !.failed_stage = stage, !.raised = message,
                     !.result = failure_result(message)]

\* a stage has finished: its duration is recorded, the next stage is due
Finished(p, stage) ==
    [p EXCEPT !.pc = next_stage(p.config, p.translator, stage),
              !.stages = Append(@, stage),
              !.processing_stats = @ \cup {stats_key(stage)}]

\* process_file up to the call of _execute_pipeline
ProcessFile ==
    /\ pipeline.pc = "ready"
    /\ pipeline' =
          IF pipeline.input_exists
            THEN [pipeline EXCEPT !.pc = "ExtractAudio"]
            ELSE [pipeline EXCEPT !.pc = "exited", !.exit = "returned",
                                  !.failed_stage = "Input",
                                  !.raised = "Arquivo nao encontrado",
                                  !.result = failure_result("Arquivo nao encontrado")]
    /\ UNCHANGED <<vadVars, asrVars, reconVars, subVars, fmtVars, cli>>

\* step 1
ExtractAudio ==
    /\ pipeline.pc = "ExtractAudio"
    /\ \E raises \in BOOLEAN :
          LET r == extract_audio_step(pipeline.components.audio_extractor, raises)
          IN  pipeline' = IF r.raised # None
                            THEN Failed("ExtractAudio", r.raised)
                            ELSE Finished(pipeline, "ExtractAudio")
    /\ UNCHANGED <<vadVars, asrVars, reconVars, subVars, fmtVars, cli>>

\* step 2
Segment ==
    /\ pipeline.pc = "Segment"
    /\ \E raises \in BOOLEAN :
          LET r == segment_audio_step(pipeline.components.vad_segmenter, raises)
          IN  pipeline' = IF r.raised # None
                            THEN Failed("Segment", r.raised)
                            ELSE Finished(pipeline, "Segment")
    /\ UNCHANGED <<vadVars, asrVars, reconVars, subVars, fmtVars, cli>>

\* step 3
Transcribe ==
    /\ pipeline.pc = "Transcribe"
    /\ \E load_ok \in BOOLEAN, raises \in BOOLEAN :
          LET r == transcribe_step(pipeline.components.whisper_engine,
                                   pipeline.config, load_ok, raises)
              loaded == [pipeline EXCEPT !.model_loaded = @ \/ r.model_loaded]
          IN  pipeline' =
                IF r.raised # None
                  THEN [Failed("Transcribe", r.raised) EXCEPT
                           !.model_loaded = loaded.model_loaded]
                  ELSE Finished([loaded EXCEPT !.segments = pipeline.transcript],
                                "Transcribe")
    /\ UNCHANGED <<vadVars, asrVars, reconVars, subVars, fmtVars, cli>>

\* step 4, taken when target_language is set and there is a translator:
\* _translate_segments absorbs what translate_text raises
Translate ==
    /\ pipeline.pc = "Translate"
    /\ \E engines \in [1..Len(pipeline.segments) -> EngineOutcomes] :
          LET r == translate_segments(pipeline.config,
                                      [segments |-> pipeline.segments,
                                       detected_language |-> "en"],
                                      engines)
          IN  pipeline' = Finished([pipeline EXCEPT !.segments = r.segments],
                                   "Translate")
    /\ UNCHANGED <<vadVars, asrVars, reconVars, subVars, fmtVars, cli>>

\* step 5
GenerateSubtitles ==
    /\ pipeline.pc = "Render"
    /\ \E raises \in [1..Len(pipeline.config.output_formats) -> BOOLEAN],
          metadata_raises \in BOOLEAN :
          LET r == render_step(pipeline.config,
                               [segments |-> pipeline.segments,
                                detected_language |-> "en"],
                               raises, metadata_raises)
          IN  pipeline' =
                IF r.raised # None
                  THEN Failed("Render", r.raised)
                  ELSE Finished([pipeline EXCEPT !.output_files = r.output_files,
                                                 !.render_raises = raises],
                                "Render")
    /\ UNCHANGED <<vadVars, asrVars, reconVars, subVars, fmtVars, cli>>

\* step 6, taken when embed_subtitles is set
EmbedSubtitles ==
    /\ pipeline.pc = "Embed"
    /\ \E outcome \in EmbedOutcomes :
          LET r == embed_subtitles_step(pipeline.output_files, outcome)
          IN  pipeline' =
                IF r.raised # None
                  THEN Failed("Embed", r.raised)
                  ELSE Finished(
                         [pipeline EXCEPT
                            !.embed_outcome = outcome,
                            !.output_files =
                                IF r.embedded_file # None
                                  THEN Append(@, r.embedded_file) ELSE @],
                         "Embed")
    /\ UNCHANGED <<vadVars, asrVars, reconVars, subVars, fmtVars, cli>>

\* return ProcessingResult(success=True, ...), with the stats in metadata
ReturnResult ==
    /\ pipeline.pc = "Done"
    /\ pipeline' = [pipeline EXCEPT
                      !.pc = "exited", !.exit = "returned",
                      !.result = [success |-> TRUE, error_message |-> None,
                                  output_files |-> pipeline.output_files,
                                  stats_in_metadata |-> TRUE]]
    /\ UNCHANGED <<vadVars, asrVars, reconVars, subVars, fmtVars, cli>>

\* KeyboardInterrupt while the call is under way: not an Exception, so it
\* leaves process_file without a result
Interrupt ==
    /\ pipeline.pc \notin {"ready", "exited"}
    /\ pipeline' = [pipeline EXCEPT !.pc = "exited", !.exit = "interrupted"]
    /\ UNCHANGED <<vadVars, asrVars, reconVars, subVars, fmtVars, cli>>

\* pipeline.cleanup() once the call has ended
Cleanup ==
    /\ pipeline.pc = "exited"
    /\ pipeline.cleanup_calls = 0
    /\ \E engine_raises \in BOOLEAN, translator_raises \in BOOLEAN :
          pipeline' = [cleanup(pipeline, engine_raises, translator_raises)
                          EXCEPT !.cleanup_calls = 1]
    /\ UNCHANGED <<vadVars, asrVars, reconVars, subVars, fmtVars, cli>>

PipeNext ==
    \/ ProcessFile
    \/ ExtractAudio
    \/ Segment
    \/ Transcribe
    \/ Translate
    \/ GenerateSubtitles
    \/ EmbedSubtitles
    \/ ReturnResult
    \/ Interrupt
    \/ Cleanup

SpecPipe == PipeInit /\ [][PipeNext]_vars

(***************************************************************************)
(* Claims about process_file                                               *)
(***************************************************************************)
InSeq(x, seq) == \E n \in 1..Len(seq) : seq[n] = x

StageNames == { Stages[n] : n \in 1..Len(Stages) }

\* C11: process_file does not raise to its caller: when the input file is
\* missing, or audio extraction or transcription raises, it returns a
\* ProcessingResult with success = false, error_message equal to the message
\* of the exception, and an empty output_files list.
C11_FailureReturnedAsResult ==
    pipeline.failed_stage \in {"Input", "ExtractAudio", "Transcribe"} =>
        /\ pipeline.exit = "returned"
        /\ ~pipeline.result.success
        /\ pipeline.result.error_message = pipeline.raised
        /\ pipeline.result.error_message # None
        /\ pipeline.result.output_files = <<>>

\* transcription has raised after extraction and segmentation went through
C11_Witness ==
    /\ pipeline.failed_stage = "Transcribe"
    /\ pipeline.exit = "returned"
    /\ pipeline.result.error_message = "Falha na transcricao"

ExpectedStages(cfg) ==
    SelectSeq(Stages,
              LAMBDA stage :
                  /\ stage = "Translate" => Truthy(cfg.target_language)
                  /\ stage = "Embed" => cfg.embed_subtitles)

\* C13: within one process_file call the stages run in the fixed order
\* ExtractAudio, Segment, Transcribe, Translate (only with a target
\* language), Render, Embed (only with embed_subtitles), Done: none is
\* skipped, repeated or revisited, and after a failing stage no further
\* stage runs.
C13_StagesInFixedOrder ==
    LET expected == ExpectedStages(pipeline.config)
        started == pipeline.stages
    IN  /\ Len(started) <= Len(expected)
        /\ started = SubSeq(expected, 1, Len(started))
        /\ pipeline.pc \in StageNames => pipeline.pc = expected[Len(started) + 1]
        /\ pipeline.pc = "Done" => started = expected
        /\ pipeline.result.success => started = expected
        /\ pipeline.failed_stage \in StageNames =>
              /\ pipeline.pc = "exited"
              /\ started[Len(started)] = pipeline.failed_stage

\* a run with translation and embedding has gone through all six stages
C13_Witness ==
    /\ pipeline.result.success
    /\ pipeline.stages = Stages

\* C14: the Segment stage never makes process_file fail: the call the
\* pipeline makes to the segmenter returns a span list and the run goes on
\* to Transcribe; no failure result comes from the Segment stage.
C14_SegmentNeverFails ==
    pipeline.failed_stage # "Segment"

\* the paths of the formats whose generate_* call did not raise, in order
SucceededPaths ==
    LET attempts == [n \in 1..Len(pipeline.render_raises) |->
                        [path |-> path_of(pipeline.config.output_formats[n]),
                         ok |-> ~pipeline.render_raises[n]]]
        kept == SelectSeq(attempts, LAMBDA a : a.ok)
    IN  [n \in 1..Len(kept) |-> kept[n].path]

\* the files Render hands on: the formats that succeeded and, in
\* multilingual mode, the sidecar
RenderedFiles ==
    SucceededPaths \o (IF pipeline.config.multilingual_detection
                         THEN <<metadata_file>> ELSE <<>>)

\* C15: with several formats requested, a format whose render raises does
\* not stop the others, and the subtitle paths in the output file list are
\* exactly those of the formats whose render succeeded: the failed format's
\* path is absent and nothing stands in for it.
C15_FailedFormatOnlyMissing ==
    "subtitle_generation" \in pipeline.processing_stats =>
        /\ Len(pipeline.render_raises) = Len(pipeline.config.output_formats)
        /\ SelectSeq(pipeline.output_files,
                     LAMBDA f : f # metadata_file /\ f # embedded_video)
             = SucceededPaths
        /\ pipeline.result.success =>
               SelectSeq(pipeline.result.output_files,
                         LAMBDA f : f # metadata_file /\ f # embedded_video)
                 = SucceededPaths

\* of two formats the first failed and the second was written
C15_Witness ==
    /\ pipeline.result.success
    /\ pipeline.render_raises = <<TRUE, FALSE>>
    /\ pipeline.result.output_files = <<path_of(pipeline.config.output_formats[2])>>

\* C16: every stage that starts records its duration in processing_stats
\* whether it succeeds or fails: after a call that failed in stage S there
\* is an entry for S and for every stage before S.
C16_StatsForEveryStartedStage ==
    pipeline.failed_stage \in StageNames =>
        \A n \in 1..Len(pipeline.stages) :
            stats_key(pipeline.stages[n]) \in pipeline.processing_stats

\* C17: with embed_subtitles set, when the embed collaborator raises or
\* reports failure, or no SRT file was rendered, process_file still returns
\* success = true with every rendered file in output_files and no embedded
\* video; an embed failure never gives a failure result.
C17_EmbedFailureAbsorbed ==
    /\ pipeline.failed_stage # "Embed"
    /\ (pipeline.exit = "returned" /\ InSeq("Embed", pipeline.stages)) =>
          /\ pipeline.result.success
          /\ pipeline.result.output_files =
                RenderedFiles
                  \o (IF /\ pipeline.embed_outcome = "embedded"
                         /\ InSeq(path_of("srt"), SucceededPaths)
                        THEN <<embedded_video>> ELSE <<>>)

\* the collaborator raised on an SRT file and the call succeeded
C17_Witness ==
    /\ pipeline.exit = "returned"
    /\ pipeline.embed_outcome = "raises"
    /\ pipeline.result.success
    /\ InSeq(path_of("srt"), pipeline.result.output_files)

(***************************************************************************)
(* Specification of _generate_subtitle_files alone: one call on a          *)
(* pipeline whose config holds any output_formats list (PipelineConfig is  *)
(* a dataclass, its output_formats field takes any list of names) and      *)
(* whose generator writes or raises for each format.                       *)
(***************************************************************************)
FormatNames == OutputFormats \cup {"txt"}

FilesInit ==
    /\ VadIdle
    /\ AsrIdle
    /\ ReconIdle
    /\ SubIdle
    /\ FmtIdle
    /\ cli = None
    /\ \E formats \in UNION { [1..k -> FormatNames] : k \in 0..MaxFormats },
          multilingual \in BOOLEAN :
          pipeline = [pc |-> "called",
                      config |-> [output_formats |-> formats,
                                  multilingual_detection |-> multilingual],
                      render_raises |-> <<>>,
                      raised |-> None,
                      output_files |-> <<>>]

GenerateSubtitleFiles ==
    /\ pipeline.pc = "called"
    /\ \E raises \in [1..Len(pipeline.config.output_formats) -> BOOLEAN],
          metadata_raises \in BOOLEAN :
          LET r == generate_subtitle_files(pipeline.config, raises, metadata_raises)
          IN  pipeline' = [pipeline EXCEPT
                              !.pc = IF r.raised = None THEN "returned" ELSE "raised",
                              !.render_raises = raises,
                              !.raised = r.raised,
                              !.output_files = r.output_files]
    /\ UNCHANGED <<vadVars, asrVars, reconVars, subVars, fmtVars, cli>>

SpecFiles == FilesInit /\ [][GenerateSubtitleFiles]_vars

\* the paths of the files one call wrote, in the order of the iterations:
\* those of the iterations whose format is known and whose generate_* call
\* returned
WrittenPaths ==
    LET formats == pipeline.config.output_formats
        attempts == [n \in 1..Len(formats) |->
                        [path |-> path_of(formats[n]),
                         written |-> /\ formats[n] \in OutputFormats
                                     /\ ~pipeline.render_raises[n]]]
        kept == SelectSeq(attempts, LAMBDA a : a.written)
    IN  [n \in 1..Len(kept) |-> kept[n].path]

(***************************************************************************)
(* C29: for every output_formats list, unknown names and any order         *)
(* included, the list _generate_subtitle_files returns holds each path at  *)
(* most once and only the paths of files written in their iteration: an    *)
(* unknown format adds no entry.                                           *)
(***************************************************************************)
C29_ReturnedPathsWrittenOnce ==
    pipeline.pc = "returned" =>
        /\ \A i \in 1..Len(pipeline.output_files) :
              \A j \in 1..Len(pipeline.output_files) :
                  i # j => pipeline.output_files[i] # pipeline.output_files[j]
        /\ SelectSeq(pipeline.output_files, LAMBDA f : f # metadata_file)
             = WrittenPaths

(***************************************************************************)
(* WhisperEngine.transcribe_segments (asr/whisper_engine.py): every        *)
(* (audio, start_time, end_time) span is handed to self.transcribe_audio   *)
(* inside its own try.  transcribe_audio is either the method of this      *)
(* repository ("repository": after the model has transcribed it evaluates  *)
(* time.time() - start_time, names the module never binds, so the          *)
(* NameError is re-raised as RuntimeError on every call) or a method       *)
(* answering the same call ("interface": a subclass or a patched engine),  *)
(* which returns the segments numbered as the loop of transcribe_audio     *)
(* numbers them, or raises.  One tick is one second.                       *)
(***************************************************************************)
MaxSpans == 3          \* most spans handed to transcribe_segments
MaxPerSpan == 2        \* most segments the model finds in one span

\* the spans: the n-th covers [3(n-1), 3(n-1) + 2]
AudioSegmentLists ==
    { [n \in 1..k |-> [start_time |-> 3 * (n - 1), end_time |-> 3 * (n - 1) + 2]]
      : k \in 0..MaxSpans }

\* what the model does with one span: it raises, or finds some segments
SpanOutcomes ==
    {[raises |-> TRUE, found |-> 0]}
        \cup { [raises |-> FALSE, found |-> k] : k \in 0..MaxPerSpan }

\* transcribe_audio on one span: ids i + 1 in the order the model yields
\* the segments, times relative to the start of the span
transcribe_audio(kind, outcome) ==
    IF outcome.raises \/ kind = "repository"
      THEN [raised |-> "RuntimeError", segments |-> <<>>]
      ELSE [raised |-> None,
            segments |-> [i \in 1..outcome.found |->
                             [id |-> i, start |-> i - 1, end |-> i,
                              text |-> "hello"]]]

\* the loop of transcribe_segments: i counts the spans from 0
RECURSIVE transcribe_segments_loop(_, _, _, _, _)
transcribe_segments_loop(kind, audio_segments, outcomes, i, all_segments) ==
    IF i >= Len(audio_segments) THEN all_segments
    ELSE LET span == audio_segments[i + 1]
             result == transcribe_audio(kind, outcomes[i + 1])
         IN  IF result.raised # None
               THEN transcribe_segments_loop(kind, audio_segments, outcomes, i + 1,
                        Append(all_segments,
                               [id |-> i + 1,
                                start |-> span.start_time,
                                end |-> span.end_time,
                                text |-> "[Erro na transcricao]"]))
               ELSE transcribe_segments_loop(kind, audio_segments, outcomes, i + 1,
                        all_segments \o
                          [k \in 1..Len(result.segments) |->
                              [result.segments[k] EXCEPT
                                  !.start = @ + span.start_time,
                                  !.end = @ + span.start_time]])

WhisperInit ==
    /\ VadIdle
    /\ ReconIdle
    /\ SubIdle
    /\ FmtIdle
    /\ RunIdle
    /\ \E kind \in Kinds, audio_segments \in AudioSegmentLists,
          model_loaded \in BOOLEAN :
          whisper = [pc |-> "called",
                     kind |-> kind,
                     model_loaded |-> model_loaded,
                     audio_segments |-> audio_segments,
                     outcomes |-> <<>>,
                     all_segments |-> <<>>]

\* transcribe_segments: load_model when the model is not loaded, then the loop
TranscribeSegments ==
    /\ whisper.pc = "called"
    /\ \E load_ok \in BOOLEAN,
          outcomes \in [1..Len(whisper.audio_segments) -> SpanOutcomes] :
          /\ (whisper.model_loaded => load_ok)
          /\ (\A n \in 1..Len(outcomes) : ~load_ok => outcomes[n].raises)
          /\ whisper' = [whisper EXCEPT
                            !.pc = "returned",
                            !.model_loaded = load_ok,
                            !.outcomes = outcomes,
                            !.all_segments =
                                transcribe_segments_loop(whisper.kind,
                                    whisper.audio_segments, outcomes, 0, <<>>)]
    /\ UNCHANGED <<vadVars, reconVars, subVars, fmtVars, runVars>>

SpecWhisper == WhisperInit /\ [][TranscribeSegments]_vars

\* the segments span n contributes to the returned list: one placeholder
\* with the times of the span when its transcription failed, otherwise its
\* segments moved by the start of the span
RECURSIVE ExpectedTimes(_)
ExpectedTimes(n) ==
    IF n = 0 THEN <<>>
    ELSE LET span == whisper.audio_segments[n]
             outcome == whisper.outcomes[n]
         IN  ExpectedTimes(n - 1) \o
               (IF outcome.raises \/ whisper.kind = "repository"
                  THEN << <<span.start_time, span.end_time>> >>
                  ELSE [k \in 1..outcome.found |->
                          <<span.start_time + k - 1, span.start_time + k>>])

====
